---- MODULE Spec2Model ----
(***************************************************************************)
(* A model of the extent-based space management of fs/xfs/xfs_bmap_util.c: *)
(* xfs_getbmap, xfs_alloc_file_space, xfs_free_file_space,                 *)
(* xfs_free_eofblocks, xfs_collapse_file_space, xfs_insert_file_space and  *)
(* xfs_swap_extents, over inodes whose forks are sorted extent lists.      *)
(*                                                                         *)
(* The handlers of xfs_bmap_util.c are translated from the source.  The    *)
(* libxfs primitives they call (xfs_bmapi_read, xfs_bmapi_write,           *)
(* xfs_bunmapi, xfs_bmap_collapse_extents, xfs_bmap_insert_extents,        *)
(* xfs_bmap_split_extent, xfs_itruncate_extents_flags, the xfs_iext        *)
(* cursor calls, the XFS_B_TO_FSB macros) live in fs/xfs/libxfs, outside   *)
(* the files at hand, and are modelled from their contract.                *)
(***************************************************************************)
EXTENDS Integers, Sequences, FiniteSets, TLC

(***************************************************************************)
(* Bounds of the model.                                                    *)
(***************************************************************************)
\* Logical blocks 0 .. MaxFsb-1 carry the extents of the generated forks.
MaxFsb == 3

(***************************************************************************)
(* Mount geometry and program constants.                                   *)
(***************************************************************************)
\* mp->m_sb.sb_blocksize, in bytes: two bytes per block, so that byte
\* offsets that are not block aligned exist.
BlockSize == 2
\* XFS_MAX_BMBT_EXTLEN: the longest extent a record can describe (21 bits).
XFS_MAX_BMBT_EXTLEN == 2097151
\* Sentinel start blocks of struct xfs_bmbt_irec.
DELAYSTARTBLOCK == -1
HOLESTARTBLOCK == -2

Ino == {1, 2}
XFS_EXT_NORM == "NORM"
XFS_EXT_UNWRITTEN == "UNWRITTEN"
OK == "OK"

Min(a, b) == IF a < b THEN a ELSE b
Max(a, b) == IF a > b THEN a ELSE b

(***************************************************************************)
(* Block/byte conversions (XFS_B_TO_FSB rounds up, XFS_B_TO_FSBT down).    *)
(***************************************************************************)
XFS_B_TO_FSB(b) == (b + BlockSize - 1) \div BlockSize
XFS_B_TO_FSBT(b) == b \div BlockSize
XFS_FSB_TO_B(fsb) == fsb * BlockSize

(***************************************************************************)
(* Extent records: struct xfs_bmbt_irec.                                   *)
(***************************************************************************)
Ext(off, blk, len, st) ==
  [br_startoff |-> off, br_startblock |-> blk, br_blockcount |-> len, br_state |-> st]

isnullstartblock(x) == x = DELAYSTARTBLOCK

xfs_bmap_is_real_extent(irec) ==
  /\ irec.br_blockcount > 0
  /\ irec.br_startblock # HOLESTARTBLOCK
  /\ irec.br_startblock # DELAYSTARTBLOCK

ExtEnd(e) == e.br_startoff + e.br_blockcount

\* Two neighbouring records the extent index keeps as one (xfs_bmap_add_extent_hole_real:
\* logically and physically contiguous, same state, not too long).
CanMerge(l, r) ==
  /\ ExtEnd(l) = r.br_startoff
  /\ l.br_state = r.br_state
  /\ \/ isnullstartblock(l.br_startblock) /\ isnullstartblock(r.br_startblock)
     \/ /\ ~isnullstartblock(l.br_startblock)
        /\ ~isnullstartblock(r.br_startblock)
        /\ l.br_startblock + l.br_blockcount = r.br_startblock
  /\ l.br_blockcount + r.br_blockcount <= XFS_MAX_BMBT_EXTLEN

\* xfs_trim_extent: cut irec to [bno, bno + len).
xfs_trim_extent(irec, bno, len) ==
  LET end == bno + len IN
  IF ExtEnd(irec) <= bno \/ irec.br_startoff >= end
  THEN [irec EXCEPT !.br_blockcount = 0]
  ELSE LET distance == IF irec.br_startoff < bno THEN bno - irec.br_startoff ELSE 0
           sb == IF irec.br_startblock \in {DELAYSTARTBLOCK, HOLESTARTBLOCK}
                 THEN irec.br_startblock
                 ELSE irec.br_startblock + distance
           so == irec.br_startoff + distance
           bc == irec.br_blockcount - distance
       IN Ext(so, sb, IF end < so + bc THEN end - so ELSE bc, irec.br_state)

(***************************************************************************)
(* The extent index of a fork: a sequence of records (the xfs_iext calls). *)
(***************************************************************************)
\* xfs_iext_lookup_extent: index of the first record that ends after bno,
\* 0 when there is none.
xfs_iext_lookup_extent(ext, bno) ==
  LET S == {i \in 1..Len(ext) : ExtEnd(ext[i]) > bno}
  IN IF S = {} THEN 0 ELSE CHOOSE i \in S : \A j \in S : i <= j

\* xfs_iext_lookup_extent_before: index of the last record that starts
\* before end, 0 when there is none.
xfs_iext_lookup_extent_before(ext, end) ==
  LET S == {i \in 1..Len(ext) : ext[i].br_startoff < end}
  IN IF S = {} THEN 0 ELSE CHOOSE i \in S : \A j \in S : i >= j

\* xfs_iext_insert / xfs_iext_remove / xfs_iext_update_extent at a cursor.
xfs_iext_insert(ext, i, rec) ==
  SubSeq(ext, 1, i - 1) \o <<rec>> \o SubSeq(ext, i, Len(ext))
xfs_iext_remove(ext, i) ==
  SubSeq(ext, 1, i - 1) \o SubSeq(ext, i + 1, Len(ext))
xfs_iext_update_extent(ext, i, rec) == [ext EXCEPT ![i] = rec]

\* Number of records that are not delayed allocations (if_nextents).
if_nextents(ext) ==
  Cardinality({i \in 1..Len(ext) : ~isnullstartblock(ext[i].br_startblock)})

RECURSIVE SumLen(_, _)
SumLen(ext, real) ==
  IF ext = <<>> THEN 0
  ELSE (IF isnullstartblock(ext[1].br_startblock) = real THEN 0 ELSE ext[1].br_blockcount)
       + SumLen(Tail(ext), real)
\* Blocks of the real records, and of the delayed ones.
RealBlocks(ext) == SumLen(ext, TRUE)
DelayedBlocks(ext) == SumLen(ext, FALSE)

\* The physical blocks a list of records occupies.
PhysOf(ext) ==
  UNION {{ext[i].br_startblock + k : k \in 0..(ext[i].br_blockcount - 1)} :
         i \in {j \in 1..Len(ext) : ~isnullstartblock(ext[j].br_startblock)}}

\* Insert a record into a hole of a sorted list, merging it with the
\* neighbours it is contiguous with (xfs_bmap_add_extent_hole_real/_delay).
AddExtentHole(ext, new) ==
  LET S == {i \in 1..Len(ext) : ext[i].br_startoff > new.br_startoff}
      n == IF S = {} THEN Len(ext) + 1 ELSE CHOOSE i \in S : \A j \in S : i <= j
      left == n > 1 /\ CanMerge(ext[n - 1], new)
      mid == IF left
             THEN [ext[n - 1] EXCEPT !.br_blockcount = @ + new.br_blockcount]
             ELSE new
      right == n <= Len(ext) /\ CanMerge(mid, ext[n])
      all == IF right
             THEN [mid EXCEPT !.br_blockcount = @ + ext[n].br_blockcount]
             ELSE mid
  IN SubSeq(ext, 1, IF left THEN n - 2 ELSE n - 1) \o <<all>>
     \o SubSeq(ext, IF right THEN n + 1 ELSE n, Len(ext))

\* Remove the blocks [s, e) of record i (which overlaps them) from the list,
\* keeping what is left of the record on either side (xfs_bmap_del_extent_real).
DelExtent(ext, i, s, e) ==
  LET got == ext[i]
      lpart == IF got.br_startoff < s
               THEN <<[got EXCEPT !.br_blockcount = s - got.br_startoff]>>
               ELSE <<>>
      rpart == IF ExtEnd(got) > e
               THEN <<xfs_trim_extent(got, e, ExtEnd(got) - e)>>
               ELSE <<>>
  IN SubSeq(ext, 1, i - 1) \o lpart \o rpart \o SubSeq(ext, i + 1, Len(ext))

(***************************************************************************)
(* Inodes and the mount.                                                   *)
(***************************************************************************)
XFS_DINODE_FMT_LOCAL == "LOCAL"
XFS_DINODE_FMT_EXTENTS == "EXTENTS"
XFS_DINODE_FMT_BTREE == "BTREE"

\* XFS_IFORK_MAXEXT(ip, XFS_DATA_FORK): the records the data fork area holds;
\* i_dsize is that area (XFS_IFORK_DSIZE) counted in records.
XFS_IFORK_MAXEXT(ip) == ip.i_dsize

\* The data fork's format follows its record count (xfs_bmap_extents_to_btree,
\* xfs_bmap_btree_to_extents, called by the primitives that change the list).
FixFormat(ip) ==
  IF ip.i_df.if_format = XFS_DINODE_FMT_LOCAL THEN ip
  ELSE IF if_nextents(ip.i_df.if_ext) > XFS_IFORK_MAXEXT(ip)
  THEN [ip EXCEPT !.i_df.if_format = XFS_DINODE_FMT_BTREE,
                  !.i_df.if_broot = IF ip.i_df.if_format = XFS_DINODE_FMT_BTREE
                                    THEN ip.i_df.if_broot ELSE 1]
  ELSE [ip EXCEPT !.i_df.if_format = XFS_DINODE_FMT_EXTENTS, !.i_df.if_broot = 0]

\* An inode whose data fork holds the records ext; everything else is plain.
MkInode(ext, size) ==
  [i_mode |-> "REG", rt |-> FALSE, i_size |-> size, i_disk_size |-> size,
   i_df |-> [if_format |-> XFS_DINODE_FMT_EXTENTS, if_ext |-> ext, if_broot |-> 0,
             if_owner |-> 0, if_loaded |-> TRUE],
   i_dsize |-> 2 * MaxFsb + 2,
   i_af |-> [present |-> FALSE, if_format |-> XFS_DINODE_FMT_EXTENTS, if_ext |-> <<>>,
             btblocks |-> 0],
   i_cowfp |-> [present |-> FALSE, if_ext |-> <<>>],
   i_nblocks |-> RealBlocks(ext), i_delayed_blks |-> DelayedBlocks(ext),
   prealloc |-> FALSE, append |-> FALSE, reflink |-> FALSE, extsz |-> 0,
   ids |-> 0, tstamp |-> 0, nrpages |-> 0, cowblocks_tag |-> FALSE]

MkMount ==
  [shutdown |-> FALSE, rmapbt |-> FALSE, reflink |-> FALSE, v3inodes |-> FALSE,
   quota_on |-> FALSE, wsync |-> FALSE, debug |-> FALSE, shared |-> {},
   sb_rextsize |-> 1]

(***************************************************************************)
(* Forks the model starts from: every block of 0 .. MaxFsb-1 is a hole     *)
(* ("H"), written ("N"), unwritten ("U") or a delayed allocation ("D");    *)
(* neighbouring blocks form one record when the index would merge them.    *)
(* phys gives the physical block of each logical block.                    *)
(***************************************************************************)
Kinds == {"H", "N", "U", "D"}
Blocks == 0..(MaxFsb - 1)

RECURSIVE Build(_, _, _, _)
Build(k, phys, b, acc) ==
  IF b = MaxFsb THEN acc
  ELSE IF k[b] = "H" THEN Build(k, phys, b + 1, acc)
  ELSE LET new == Ext(b, IF k[b] = "D" THEN DELAYSTARTBLOCK ELSE phys[b], 1,
                      IF k[b] = "U" THEN XFS_EXT_UNWRITTEN ELSE XFS_EXT_NORM)
           n == Len(acc)
       IN IF n > 0 /\ CanMerge(acc[n], new)
          THEN Build(k, phys, b + 1, [acc EXCEPT ![n].br_blockcount = @ + 1])
          ELSE Build(k, phys, b + 1, Append(acc, new))

\* Physically contiguous in logical order, or in reverse order (no two
\* neighbouring blocks are then contiguous, and no records merge).
PhysContig(base) == [b \in Blocks |-> base + b]
PhysReverse(base) == [b \in Blocks |-> base + (MaxFsb - 1 - b)]
Layouts(base) == {PhysContig(base), PhysReverse(base)}

Forks(kinds, base) == {Build(k, phys, 0, <<>>) : k \in [Blocks -> kinds], phys \in Layouts(base)}

(***************************************************************************)
(* State.                                                                  *)
(***************************************************************************)
VARIABLES
  inodes,  \* the in-core inodes, by inode number
  mp,      \* the mount: feature bits and the shutdown flag
  pc,      \* where the running call stands ("idle": no call is running)
  lv,      \* the running call's arguments and local variables
  ret,     \* the last call that returned: its name, arguments and error
  h,       \* history kept for the checks: the inodes at the start of a call
  out      \* what the last xfs_getbmap wrote: the request as left, the records

vars == <<inodes, mp, pc, lv, ret, h, out>>

NoLv ==
  [op |-> "none", ip |-> 0, tip |-> 0, offset |-> 0, len |-> 0,
   startoffset_fsb |-> 0, endoffset_fsb |-> 0, allocatesize_fsb |-> 0,
   next_fsb |-> 0, shift_fsb |-> 0, stop_fsb |-> 0, zero |-> << >>,
   sx_stat |-> 0, offset_fsb |-> 0, count_fsb |-> 0,
   src_log_flags |-> {}, target_log_flags |-> {}, can |-> FALSE,
   nsteps |-> 0,  \* nsteps: the xfs_unmap_extent calls the loop has made
   tip_flags2 |-> FALSE]
NoRet ==
  [op |-> "none", ip |-> 0, tip |-> 0, offset |-> 0, len |-> 0, error |-> OK,
   zero |-> << >>, sx_stat |-> 0, src_log_flags |-> {}, target_log_flags |-> {},
   can |-> FALSE]
NoHist == [n |-> 0, pre |-> << >>, first |-> << >>, prev |-> NoRet]
NoBmv ==
  [bmv_offset |-> 0, bmv_length |-> 0, bmv_count |-> 0, bmv_entries |-> 0,
   bmv_iflags |-> {}]
NoOut == [bmv |-> NoBmv, out |-> << >>, req |-> NoBmv]

\* A call begins: remember the inodes as they are, and the call before it.
Enter == h' = [n |-> h.n + 1, pre |-> inodes,
               first |-> IF h.n = 0 THEN inodes ELSE h.first, prev |-> ret]

\* The running (or just entered) call returns error.
Return(l, error) ==
  /\ ret' = [op |-> l.op, ip |-> l.ip, tip |-> l.tip, offset |-> l.offset,
             len |-> l.len, error |-> error, zero |-> l.zero, sx_stat |-> l.sx_stat,
             src_log_flags |-> l.src_log_flags,
             target_log_flags |-> l.target_log_flags, can |-> l.can]
  /\ pc' = "idle"
  /\ lv' = NoLv

\* Every physical block some fork of some inode maps.
Used ==
  UNION {PhysOf(inodes[i].i_df.if_ext) \cup PhysOf(inodes[i].i_cowfp.if_ext)
           \cup PhysOf(inodes[i].i_af.if_ext) : i \in Ino}

\* The block allocator: the lowest run of n blocks no fork maps.
FirstFitIn(used, n) ==
  LET top == IF used = {} THEN 0 ELSE (CHOOSE m \in used : \A u \in used : u <= m) + 1
      free(p) == \A k \in 0..(n - 1) : (p + k) \notin used
  IN CHOOSE p \in 0..top : free(p) /\ \A q \in 0..(p - 1) : ~free(q)

\* The same with the set of used blocks computed once.
FirstFit(used, n) == CHOOSE p \in {FirstFitIn(us, n) : us \in {used}} : TRUE

(***************************************************************************)
(* xfs_bmapi_write(tp, ip, bno, len, XFS_BMAPI_PREALLOC, 0, imap, &nimaps) *)
(* with nimaps = 1: the outcomes it can have, each with the error, the     *)
(* mapping returned for the block bno and the inode as it leaves it.       *)
(*  - bno lies in a real record: that record, cut to the request;          *)
(*  - bno lies in a hole or in a delayed allocation: the allocator gives   *)
(*    an unwritten extent at bno, as long as the hole (or the delayed      *)
(*    record) and the request allow or shorter, or nothing (-ENOSR);       *)
(*  - or a hard error, the inode untouched.                                *)
(***************************************************************************)
AllocLens(m) == {m, 1}

xfs_bmapi_write_in(ip, used, bno, len) ==
  LET ext == ip.i_df.if_ext
      i == xfs_iext_lookup_extent(ext, bno)
      covered == i # 0 /\ ext[i].br_startoff <= bno
      wasdel == covered /\ isnullstartblock(ext[i].br_startblock)
      room == IF wasdel THEN Min(len, ExtEnd(ext[i]) - bno)
              ELSE IF i # 0 THEN Min(len, ext[i].br_startoff - bno)
              ELSE len
      alloc(n) ==
        CHOOSE x \in
          {[error |-> OK, imap |-> new,
            ip |-> FixFormat([ip EXCEPT !.i_df.if_ext = AddExtentHole(cut, new),
                                        !.i_nblocks = @ + n,
                                        !.i_delayed_blks = IF wasdel THEN @ - n ELSE @])] :
             new \in {Ext(bno, FirstFit(used, n), n, XFS_EXT_UNWRITTEN)},
             cut \in {IF wasdel THEN DelExtent(ext, i, bno, bno + n) ELSE ext}} : TRUE
      none == Ext(bno, HOLESTARTBLOCK, 0, XFS_EXT_NORM)
  IN {[error |-> "EIO", imap |-> none, ip |-> ip]}
     \cup (IF covered /\ ~wasdel
           THEN {[error |-> OK, imap |-> xfs_trim_extent(ext[i], bno, len), ip |-> ip]}
           ELSE {[error |-> "ENOSR", imap |-> none, ip |-> ip]}
                \cup {alloc(n) : n \in AllocLens(room)})

\* The outcomes for the values of the arguments, each computed once.
xfs_bmapi_write(ip, used, bno, len) ==
  UNION {xfs_bmapi_write_in(ipv, usedv, bnov, lenv) :
           ipv \in {ip}, usedv \in {used}, bnov \in {bno}, lenv \in {len}}

(***************************************************************************)
(* xfs_alloc_file_space                                                    *)
(***************************************************************************)
alloc_startoffset_fsb(offset) == XFS_B_TO_FSBT(offset)
\* A variant that rounds the end of the range down instead of up.
alloc_endoffset_fsb_down(offset, count) == XFS_B_TO_FSBT(offset + count)
alloc_endoffset_fsb(offset, count) == XFS_B_TO_FSB(offset + count)

\* The loop's bookkeeping after xfs_bmapi_write: only a returned mapping
\* moves the start and shrinks what is left; -ENOSR is not an error.
\* A variant that forgets the extent it was given.
alloc_advance_stuck(l, r) == l

\* A variant that steps over the start block when nothing was returned.
alloc_advance_skip(l, r) ==
  IF r.error = OK
  THEN [l EXCEPT !.startoffset_fsb = @ + r.imap.br_blockcount,
                 !.allocatesize_fsb = @ - r.imap.br_blockcount]
  ELSE [l EXCEPT !.startoffset_fsb = @ + 1, !.allocatesize_fsb = @ - 1]

alloc_advance(l, r) ==
  IF r.error = OK
  THEN [l EXCEPT !.startoffset_fsb = @ + r.imap.br_blockcount,
                 !.allocatesize_fsb = @ - r.imap.br_blockcount]
  ELSE l

\* xfs_is_shutdown(mp).  (First a variant that never sees the shutdown.)
xfs_is_shutdown_never(m) == FALSE
xfs_is_shutdown(m) == m.shutdown

\* Entry: the checks before the loop, and the loop's variables.
xfs_alloc_file_space(ino, offset, len) ==
  LET l == [NoLv EXCEPT !.op = "alloc", !.ip = ino, !.offset = offset, !.len = len]
  IN /\ pc = "idle"
     /\ UNCHANGED <<inodes, mp, out>>
     /\ IF xfs_is_shutdown(mp) THEN Return(l, "EIO")
        ELSE IF len <= 0 THEN Return(l, "EINVAL")
        ELSE /\ pc' = "alloc"
             /\ lv' = [l EXCEPT
                  !.startoffset_fsb = alloc_startoffset_fsb(offset),
                  !.endoffset_fsb = alloc_endoffset_fsb(offset, len),
                  !.allocatesize_fsb = alloc_endoffset_fsb(offset, len)
                                       - alloc_startoffset_fsb(offset)]
             /\ UNCHANGED ret

\* The error exit (lines 915-918): xfs_trans_cancel drops the transaction
\* of this iteration, which has changed nothing yet; the inode stays as the
\* iterations before left it.  (First a variant that takes the
\* preallocation flag back.)
alloc_cancel_clear(ip) == [ip EXCEPT !.prealloc = FALSE]
alloc_cancel(ip) == ip

\* One iteration of the loop: one transaction under the ILOCK.
AllocIter ==
  /\ pc = "alloc"
  /\ UNCHANGED <<h, out>>
  /\ \/ \* xfs_trans_alloc_inode fails: break
        /\ Return(lv, "ENOSPC")
        /\ UNCHANGED <<inodes, mp>>
     \/ \* xfs_iext_count_may_overflow says -EFBIG and the upgrade fails
        /\ Return(lv, "EFBIG")
        /\ inodes' = [inodes EXCEPT ![lv.ip] = alloc_cancel(@)]
        /\ UNCHANGED mp
     \/ \E r \in xfs_bmapi_write(inodes[lv.ip], Used, lv.startoffset_fsb,
                                 lv.allocatesize_fsb) :
          IF r.error \notin {OK, "ENOSR"}
          THEN \* goto error: xfs_trans_cancel
               /\ Return(lv, r.error)
               /\ inodes' = [inodes EXCEPT ![lv.ip] = alloc_cancel(@)]
               /\ UNCHANGED mp
          ELSE \E commit \in {OK, "EIO"} :
               LET l == alloc_advance(lv, r) IN
               /\ inodes' = [inodes EXCEPT ![lv.ip] = [r.ip EXCEPT !.prealloc = TRUE]]
               /\ mp' = IF commit = OK THEN mp ELSE [mp EXCEPT !.shutdown = TRUE]
               /\ IF l.allocatesize_fsb = 0 \/ commit # OK
                  THEN Return(lv, commit)
                  ELSE /\ lv' = l
                       /\ UNCHANGED <<pc, ret>>

(***************************************************************************)
(* Writeback (filemap_write_and_wait): the delayed allocations that back   *)
(* dirty pages, those below end of file, become written extents;           *)
(* speculative preallocation beyond end of file stays delayed.             *)
(***************************************************************************)
\* The block count no file offset reaches (LLONG_MAX as a block number).
MaxFileoff == 2 * MaxFsb + 2

RECURSIVE Writeback(_, _, _, _)
Writeback(ip, used, lo, hi) ==
  LET ext == ip.i_df.if_ext
      eof == Min(XFS_B_TO_FSB(ip.i_size), hi)
      S == {i \in 1..Len(ext) : isnullstartblock(ext[i].br_startblock)
                                /\ ext[i].br_startoff < eof /\ ExtEnd(ext[i]) > lo}
  IN IF S = {} THEN ip
     ELSE LET i == CHOOSE j \in S : \A k \in S : j <= k
              s == Max(ext[i].br_startoff, lo)
              e == Min(ExtEnd(ext[i]), eof)
              p == FirstFit(used, e - s)
              new == Ext(s, p, e - s, XFS_EXT_NORM)
          IN Writeback(
               FixFormat([ip EXCEPT
                 !.i_df.if_ext = AddExtentHole(DelExtent(ext, i, s, e), new),
                 !.i_nblocks = @ + (e - s),
                 !.i_delayed_blks = @ - (e - s)]),
               used \cup PhysOf(<<new>>), lo, hi)

\* The range holds dirty pages: delayed allocations writeback would convert.
\* On a filesystem that is shut down such a writeback fails with -EIO and
\* converts nothing; with no dirty page it has nothing to do and succeeds.
Dirty(ip, used, lo, hi) == Writeback(ip, used, lo, hi) # ip

(***************************************************************************)
(* xfs_getbmap                                                             *)
(* Offsets and lengths of struct getbmapx count basic blocks; one byte of  *)
(* the model is one basic block.                                           *)
(***************************************************************************)
XFS_FSB_TO_BB(fsb) == fsb * BlockSize
XFS_BB_TO_FSBT(bb) == bb \div BlockSize
XFS_BB_TO_FSB(bb) == (bb + BlockSize - 1) \div BlockSize
\* mp->m_super->s_maxbytes: the largest file offset.
s_maxbytes == MaxFileoff * BlockSize

BMV_IF_VALID ==
  {"BMV_IF_ATTRFORK", "BMV_IF_PREALLOC", "BMV_IF_DELALLOC", "BMV_IF_NO_HOLES",
   "BMV_IF_COWFORK"}

xfs_fsb_to_db(ip, fsb) == XFS_FSB_TO_BB(fsb)

\* xfs_get_cowextsz_hint: the extent size hint, or the default of 32 blocks.
xfs_get_cowextsz_hint(ip) == IF ip.extsz # 0 THEN ip.extsz ELSE 32

\* xfs_reflink_trim_around_shared: cut irec to its leading run of blocks
\* that are all shared or all unshared.
xfs_reflink_trim_around_shared(ip, m, irec) ==
  IF ~ip.reflink \/ ~xfs_bmap_is_real_extent(irec)
  THEN [irec |-> irec, shared |-> FALSE]
  ELSE LET sh(k) == (irec.br_startblock + k) \in m.shared
           D == {k \in 1..(irec.br_blockcount - 1) : sh(k) # sh(0)}
           n == IF D = {} THEN irec.br_blockcount
                ELSE CHOOSE k \in D : \A j \in D : k <= j
       IN [irec |-> [irec EXCEPT !.br_blockcount = n], shared |-> sh(0)]

NoRec == [bmv_block |-> 0, bmv_offset |-> 0, bmv_length |-> 0, bmv_oflags |-> {}]

\* A delayed extent is skipped unless the caller asked to see it.
\* (First a variant that never skips.)
report_one_skip_never(delay, iflags) == FALSE
report_one_skip(delay, iflags) == delay /\ "BMV_IF_DELALLOC" \notin iflags

\* s is the scan: the request bmv, the records out, the record rec to report.
xfs_getbmap_report_one(ip, m, s, bmv_end) ==
  LET t == xfs_reflink_trim_around_shared(ip, m, s.rec)
      got == t.irec
      delay == isnullstartblock(got.br_startblock)
               \/ got.br_startblock = DELAYSTARTBLOCK
  IN IF report_one_skip(delay, s.bmv.bmv_iflags)
     THEN [s EXCEPT !.rec = got]
     ELSE LET p == [bmv_block |-> IF delay THEN -2
                                  ELSE xfs_fsb_to_db(ip, got.br_startblock),
                    bmv_offset |-> XFS_FSB_TO_BB(got.br_startoff),
                    bmv_length |-> XFS_FSB_TO_BB(got.br_blockcount),
                    bmv_oflags |->
                      (IF delay THEN {"BMV_OF_DELALLOC"} ELSE {})
                      \cup (IF got.br_state = XFS_EXT_UNWRITTEN
                               /\ "BMV_IF_PREALLOC" \in s.bmv.bmv_iflags
                            THEN {"BMV_OF_PREALLOC"} ELSE {})
                      \cup (IF t.shared THEN {"BMV_OF_SHARED"} ELSE {})]
          IN [s EXCEPT !.rec = got,
                       !.out = Append(@, p),
                       !.bmv.bmv_offset = p.bmv_offset + p.bmv_length,
                       !.bmv.bmv_length = Max(0, bmv_end - (p.bmv_offset + p.bmv_length)),
                       !.bmv.bmv_entries = @ + 1]

xfs_getbmap_report_hole(s, bmv_end, bno, end) ==
  IF "BMV_IF_NO_HOLES" \in s.bmv.bmv_iflags THEN s
  ELSE LET p == [bmv_block |-> -1,
                 bmv_offset |-> XFS_FSB_TO_BB(bno),
                 bmv_length |-> XFS_FSB_TO_BB(end - bno),
                 bmv_oflags |-> {}]
       IN [s EXCEPT !.out = Append(@, p),
                    !.bmv.bmv_offset = p.bmv_offset + p.bmv_length,
                    !.bmv.bmv_length = Max(0, bmv_end - (p.bmv_offset + p.bmv_length)),
                    !.bmv.bmv_entries = @ + 1]

xfs_getbmap_full(bmv) ==
  bmv.bmv_length = 0 \/ bmv.bmv_entries >= bmv.bmv_count - 1

\* xfs_getbmap_next_rec: the part of the record after rec, up to total_end;
\* more is FALSE when rec already ends there.
xfs_getbmap_next_rec(rec, total_end) ==
  LET end == ExtEnd(rec) IN
  IF end = total_end THEN [more |-> FALSE, rec |-> rec]
  ELSE [more |-> TRUE,
        rec |-> Ext(rec.br_startoff + rec.br_blockcount,
                    IF ~isnullstartblock(rec.br_startblock)
                       /\ rec.br_startblock # DELAYSTARTBLOCK
                    THEN rec.br_startblock + rec.br_blockcount
                    ELSE rec.br_startblock,
                    total_end - end, rec.br_state)]

\* The do-while of xfs_getbmap: report the shared and unshared parts of one
\* record; stop is TRUE when the output is full.
RECURSIVE getbmap_report_parts(_, _, _, _, _)
getbmap_report_parts(ip, m, s, bmv_end, bno) ==
  LET s1 == xfs_getbmap_report_one(ip, m, s, bmv_end) IN
  IF xfs_getbmap_full(s1.bmv) THEN [s1 EXCEPT !.stop = TRUE]
  ELSE LET nx == xfs_getbmap_next_rec(s1.rec, bno) IN
       IF nx.more THEN getbmap_report_parts(ip, m, [s1 EXCEPT !.rec = nx.rec], bmv_end, bno)
       ELSE s1

\* (First a variant that sets no flag.)
SetLast_skip(o) == o
SetLast(o) ==
  IF o = <<>> THEN o
  ELSE [o EXCEPT ![Len(o)].bmv_oflags = @ \cup {"BMV_OF_LAST"}]

\* The while loop of xfs_getbmap, one operator per stage of its body; i is
\* the cursor, bno the scan position.
RECURSIVE getbmap_loop(_, _, _, _, _, _, _, _, _, _)
RECURSIVE getbmap_loop_next(_, _, _, _, _, _, _, _, _, _)

\* xfs_iext_next_extent found no record: s carries BMV_OF_LAST already.
getbmap_loop_last(ip, attr, s, bmv_end, bno) ==
  LET end == XFS_B_TO_FSB(ip.i_size)
  IN IF ~attr /\ bno < end /\ ~xfs_getbmap_full(s.bmv)
     THEN xfs_getbmap_report_hole(s, bmv_end, bno, end)
     ELSE s

\* After the do-while on record i, which ended at bno.
getbmap_loop_next(ip, m, ext, attr, s, i, bno, bmv_end, first_bno, len) ==
  IF s.stop THEN s
  ELSE IF i = Len(ext)
  THEN getbmap_loop_last(ip, attr, [s EXCEPT !.out = SetLast(@)], bmv_end, bno)
  ELSE IF bno >= first_bno + len THEN s
  ELSE getbmap_loop(ip, m, ext, attr, s, i + 1, bno, bmv_end, first_bno, len)

\* After the hole before the trimmed record got, if there was one.
getbmap_loop_rec(ip, m, ext, attr, s, got, i, bno, bmv_end, first_bno, len) ==
  IF got.br_startoff > bno /\ xfs_getbmap_full(s.bmv) THEN s
  ELSE getbmap_loop_next(ip, m, ext, attr,
                         getbmap_report_parts(ip, m, [s EXCEPT !.rec = got], bmv_end,
                                              got.br_startoff + got.br_blockcount),
                         i, got.br_startoff + got.br_blockcount, bmv_end, first_bno, len)

getbmap_loop_hole(ip, m, ext, attr, s, got, i, bno, bmv_end, first_bno, len) ==
  getbmap_loop_rec(ip, m, ext, attr,
                   IF got.br_startoff > bno
                   THEN xfs_getbmap_report_hole(s, bmv_end, bno, got.br_startoff)
                   ELSE s,
                   got, i, bno, bmv_end, first_bno, len)

getbmap_loop(ip, m, ext, attr, s, i, bno, bmv_end, first_bno, len) ==
  IF xfs_getbmap_full(s.bmv) THEN s
  ELSE getbmap_loop_hole(ip, m, ext, attr, s, xfs_trim_extent(ext[i], first_bno, len),
                         i, bno, bmv_end, first_bno, len)

\* The scan of xfs_getbmap from the request bmv as clamped (lines 510-574).
getbmap_scan(ip, m, ext, attr, bmv, first_bno, i) ==
  LET bmv_end == bmv.bmv_offset + bmv.bmv_length
      len == XFS_BB_TO_FSB(bmv.bmv_length)
      s0 == [bmv |-> bmv, out |-> <<>>, rec |-> Ext(0, 0, 0, XFS_EXT_NORM), stop |-> FALSE]
  IN IF i = 0
     THEN IF "BMV_IF_DELALLOC" \in bmv.bmv_iflags
          THEN xfs_getbmap_report_hole(s0, bmv_end, first_bno, XFS_B_TO_FSB(ip.i_size))
          ELSE s0
     ELSE getbmap_loop(ip, m, ext, attr, s0, i, first_bno, bmv_end, first_bno, len)

getbmap_result(s) == [error |-> OK, bmv |-> s.bmv, out |-> s.out]

getbmap_fork(ip, m, ext, attr, bmv) ==
  getbmap_result(getbmap_scan(ip, m, ext, attr, bmv, XFS_BB_TO_FSBT(bmv.bmv_offset),
                              xfs_iext_lookup_extent(ext, XFS_BB_TO_FSBT(bmv.bmv_offset))))

\* xfs_getbmap(ip, bmv, out) after its flush: the error, the request as it
\* is left, and the records written.
getbmap(ip, m, bmv) ==
  LET iflags == bmv.bmv_iflags
      fail(e) == [error |-> e, bmv |-> bmv, out |-> <<>>]
      bmv0 == [bmv EXCEPT !.bmv_entries = 0]
      none == [error |-> OK, bmv |-> bmv0, out |-> <<>>]
      attr == "BMV_IF_ATTRFORK" \in iflags
      cow == ~attr /\ "BMV_IF_COWFORK" \in iflags
  IN
  IF ~(iflags \subseteq BMV_IF_VALID) THEN fail("EINVAL")
  ELSE IF ~m.debug /\ "BMV_IF_COWFORK" \in iflags THEN fail("EINVAL")
  ELSE IF "BMV_IF_ATTRFORK" \in iflags /\ "BMV_IF_COWFORK" \in iflags THEN fail("EINVAL")
  ELSE IF bmv.bmv_length < -1 THEN fail("EINVAL")
  ELSE IF bmv.bmv_length = 0 THEN none
  ELSE IF attr /\ ~ip.i_af.present THEN none
  ELSE IF cow /\ ~ip.i_cowfp.present THEN none
  ELSE
  LET max_len == IF attr THEN 2 * s_maxbytes
                 ELSE IF cow
                 THEN (IF xfs_get_cowextsz_hint(ip) # 0 THEN s_maxbytes ELSE ip.i_size)
                 ELSE IF ip.extsz # 0 \/ ip.prealloc \/ ip.append THEN s_maxbytes
                 ELSE ip.i_size
      format == IF attr THEN ip.i_af.if_format
                ELSE IF cow THEN XFS_DINODE_FMT_EXTENTS
                ELSE ip.i_df.if_format
      ext == IF attr THEN ip.i_af.if_ext
             ELSE IF cow THEN ip.i_cowfp.if_ext
             ELSE ip.i_df.if_ext
  IN
  IF format = XFS_DINODE_FMT_LOCAL THEN none
  ELSE getbmap_fork(ip, m, ext, attr,
                    IF bmv0.bmv_length = -1
                    THEN [bmv0 EXCEPT !.bmv_length =
                            Max(0, XFS_FSB_TO_BB(XFS_B_TO_FSB(max_len)) - bmv0.bmv_offset)]
                    ELSE bmv0)

\* The flush xfs_getbmap starts a data fork query with.
getbmap_flush(ip, bmv) ==
  /\ "BMV_IF_ATTRFORK" \notin bmv.bmv_iflags
  /\ "BMV_IF_COWFORK" \notin bmv.bmv_iflags
  /\ bmv.bmv_iflags \subseteq BMV_IF_VALID
  /\ bmv.bmv_length >= -1
  /\ bmv.bmv_length # 0
  /\ "BMV_IF_DELALLOC" \notin bmv.bmv_iflags
  /\ (ip.i_delayed_blks # 0 \/ ip.i_size > ip.i_disk_size)

\* The call returns r with the inode as the flush left it.
getbmap_return(ino, bmv, ip, r) ==
  /\ inodes' = [inodes EXCEPT ![ino] = ip]
  /\ Return([NoLv EXCEPT !.op = "getbmap", !.ip = ino, !.offset = bmv.bmv_offset,
                         !.len = bmv.bmv_length], r.error)
  /\ out' = [bmv |-> r.bmv, out |-> r.out, req |-> bmv]
  /\ UNCHANGED mp

getbmap_flushed(ino, bmv, ip) == getbmap_return(ino, bmv, ip, getbmap(ip, mp, bmv))

\* The whole call: it runs under the shared IO lock and map lock and
\* returns; the only change to the inode is the flush.
xfs_getbmap(ino, bmv) ==
  /\ pc = "idle"
  /\ IF /\ getbmap_flush(inodes[ino], bmv)
        /\ mp.shutdown
        /\ (Dirty(inodes[ino], Used, 0, MaxFileoff)
            \/ inodes[ino].i_size > inodes[ino].i_disk_size)
     THEN \* filemap_write_and_wait fails: goto out_unlock_iolock
          getbmap_return(ino, bmv, inodes[ino], [error |-> "EIO", bmv |-> bmv, out |-> << >>])
     ELSE getbmap_flushed(ino, bmv,
                          IF getbmap_flush(inodes[ino], bmv)
                          THEN [Writeback(inodes[ino], Used, 0, MaxFileoff)
                                  EXCEPT !.i_disk_size = inodes[ino].i_size]
                          ELSE inodes[ino])

(***************************************************************************)
(* xfs_bunmapi(tp, ip, start, len, 0, nexts, &done): unmap the blocks of   *)
(* [start, start + len) from the data fork, walking the records from the   *)
(* last one down and stopping after nexts of them; done says that nothing  *)
(* of the range is left to look at.                                        *)
(***************************************************************************)
RECURSIVE bunmapi_loop(_, _, _, _, _)
bunmapi_loop(ip, start, end, extno, nexts) ==
  IF ~(end # -1 /\ end >= start /\ extno < nexts)
  THEN [ip |-> ip, done |-> (end = -1 \/ end < start)]
  ELSE
  LET ext == ip.i_df.if_ext
      i == xfs_iext_lookup_extent_before(ext, end + 1)
      got == ext[i]
      end1 == IF ExtEnd(got) - 1 < end THEN ExtEnd(got) - 1 ELSE end
  IN IF end1 < start THEN [ip |-> ip, done |-> TRUE]
     ELSE
     LET s == Max(start, got.br_startoff)
         n == end1 + 1 - s
         wasdel == isnullstartblock(got.br_startblock)
         ip2 == FixFormat([ip EXCEPT
                  !.i_df.if_ext = DelExtent(ext, i, s, end1 + 1),
                  !.i_nblocks = IF wasdel THEN @ ELSE @ - n,
                  !.i_delayed_blks = IF wasdel THEN @ - n ELSE @])
         end2 == s - 1
     IN IF end2 # -1 /\ end2 >= start
        THEN IF xfs_iext_lookup_extent_before(ip2.i_df.if_ext, end2 + 1) = 0
             THEN [ip |-> ip2, done |-> TRUE]
             ELSE bunmapi_loop(ip2, start, end2, extno + 1, nexts)
        ELSE [ip |-> ip2, done |-> TRUE]

xfs_bunmapi(ip, start, len, nexts) ==
  IF xfs_iext_lookup_extent_before(ip.i_df.if_ext, start + len) = 0
  THEN [ip |-> ip, done |-> TRUE]
  ELSE bunmapi_loop(ip, start, start + len - 1, 0, nexts)

(***************************************************************************)
(* xfs_unmap_extent: one transaction around xfs_bunmapi with nexts = 2.    *)
(* The outcomes: the error, the inode and done as the call leaves them.    *)
(***************************************************************************)
unmap_nexts == 2

xfs_unmap_extent(ip, m, startoffset_fsb, len_fsb) ==
  LET r == xfs_bunmapi(ip, startoffset_fsb, len_fsb, unmap_nexts) IN
  IF m.shutdown
  THEN {[error |-> "EIO", ip |-> ip, done |-> FALSE]} \* xfs_trans_alloc_inode
  ELSE
  { [error |-> "ENOSPC", ip |-> ip, done |-> FALSE],  \* xfs_trans_alloc_inode
    [error |-> "EFBIG", ip |-> ip, done |-> FALSE],   \* the extent count check
    [error |-> "EFSCORRUPTED", ip |-> ip, done |-> FALSE], \* xfs_bunmapi
    [error |-> "EIO", ip |-> r.ip, done |-> r.done],  \* xfs_trans_commit
    [error |-> OK, ip |-> r.ip, done |-> r.done] }

(***************************************************************************)
(* xfs_free_file_space                                                     *)
(***************************************************************************)
PAGE_SIZE == BlockSize
roundup_64(x, y) == ((x + y - 1) \div y) * y
rounddown_64(x, y) == (x \div y) * y

free_startoffset_fsb(ip, m, offset) ==
  IF ip.rt /\ m.sb_rextsize > 1
  THEN roundup_64(XFS_B_TO_FSB(offset), m.sb_rextsize)
  ELSE XFS_B_TO_FSB(offset)
\* A variant that rounds the end of the range up instead of down.
free_endoffset_fsb_up(ip, m, offset, len) == XFS_B_TO_FSB(offset + len)
free_endoffset_fsb(ip, m, offset, len) ==
  IF ip.rt /\ m.sb_rextsize > 1
  THEN rounddown_64(XFS_B_TO_FSBT(offset + len), m.sb_rextsize)
  ELSE XFS_B_TO_FSBT(offset + len)

\* Where a call stands after xfs_free_file_space returned error to it.
AfterFree(l, error) ==
  IF l.op = "collapse" /\ error = OK
  THEN /\ pc' = "prepare_shift"
       /\ lv' = l
       /\ UNCHANGED ret
  ELSE Return(l, error)

\* Entry, up to the unmap loop; l holds the caller's locals.
free_file_space_enter(l) ==
  LET ip == inodes[l.ip]
      s == free_startoffset_fsb(ip, mp, l.offset)
      e == free_endoffset_fsb(ip, mp, l.offset, l.len)
  IN IF l.len <= 0 THEN AfterFree(l, OK)
     ELSE /\ pc' = IF e > s THEN "free_unmap" ELSE "free_zero"
          /\ lv' = [l EXCEPT !.startoffset_fsb = s, !.endoffset_fsb = e]
          /\ UNCHANGED ret

xfs_free_file_space(ino, offset, len) ==
  /\ pc = "idle"
  /\ free_file_space_enter([NoLv EXCEPT !.op = "free", !.ip = ino,
                                        !.offset = offset, !.len = len])
  /\ UNCHANGED <<inodes, mp, out>>

\* The block range a pass of the loop hands to xfs_unmap_extent: the start
\* and the length.  (First a variant that starts one block further on.)
free_unmap_range_next(l) ==
  <<l.startoffset_fsb + 1, l.endoffset_fsb - (l.startoffset_fsb + 1)>>
free_unmap_range(l) == <<l.startoffset_fsb, l.endoffset_fsb - l.startoffset_fsb>>

\* One pass of the loop: one xfs_unmap_extent over the whole block range.
FreeUnmap ==
  /\ pc = "free_unmap"
  /\ UNCHANGED <<h, out>>
  /\ \E r \in xfs_unmap_extent(inodes[lv.ip], mp, free_unmap_range(lv)[1],
                               free_unmap_range(lv)[2]) :
       /\ inodes' = [inodes EXCEPT ![lv.ip] = r.ip]
       /\ mp' = IF r.error = "EIO" THEN [mp EXCEPT !.shutdown = TRUE] ELSE mp
       /\ IF r.error # OK THEN Return(lv, r.error)
          ELSE /\ pc' = IF r.done THEN "free_zero" ELSE pc
               /\ lv' = [lv EXCEPT !.nsteps = @ + 1]
               /\ UNCHANGED ret

\* After the loop: zero the partial blocks at the edges, never past end of
\* file, and flush the page that holds end of file when zeroing ended there.
\* The length as given, not cut at end of file.
free_zero_len_noclamp(isize, offset, len) == len

free_zero_len(isize, offset, len) ==
  IF offset + len > isize THEN isize - offset ELSE len

FreeZero ==
  /\ pc = "free_zero"
  /\ UNCHANGED <<h, out, mp>>
  /\ LET ip == inodes[lv.ip]
         len == free_zero_len(ip.i_size, lv.offset, lv.len)
         l == [lv EXCEPT !.zero = <<lv.offset, len>>]
     IN IF lv.offset >= ip.i_size
        THEN AfterFree(lv, OK) /\ UNCHANGED inodes
        ELSE \/ \* xfs_zero_range fails
                /\ Return(lv, "EIO")
                /\ UNCHANGED inodes
             \/ \* xfs_zero_range works, which it never does after a shutdown
                /\ ~mp.shutdown
                /\ IF lv.offset + len >= ip.i_size /\ (lv.offset + len) % PAGE_SIZE > 0
                   THEN \/ \* filemap_write_and_wait_range fails
                           /\ Return(l, "EIO")
                           /\ UNCHANGED inodes
                        \/ /\ inodes' = [inodes EXCEPT ![lv.ip] =
                                Writeback(ip, Used,
                                          XFS_B_TO_FSBT(rounddown_64(lv.offset + len, PAGE_SIZE)),
                                          MaxFileoff)]
                           /\ AfterFree(l, OK)
                   ELSE /\ AfterFree(l, OK)
                        /\ UNCHANGED inodes

(***************************************************************************)
(* End-of-file reclamation.                                                *)
(***************************************************************************)
\* xfs_bmapi_read(ip, bno, len, &imap, &nimaps, 0) with nimaps = 1: the
\* mapping of block bno, a hole record where no record covers it.
xfs_bmapi_read(ip, m, bno, len) ==
  LET ext == ip.i_df.if_ext
      i == xfs_iext_lookup_extent(ext, bno)
  IN IF m.shutdown THEN [error |-> "EIO", imap |-> Ext(bno, HOLESTARTBLOCK, 0, XFS_EXT_NORM)]
     ELSE IF i = 0 THEN [error |-> OK, imap |-> Ext(bno, HOLESTARTBLOCK, len, XFS_EXT_NORM)]
     ELSE IF ext[i].br_startoff > bno
     THEN [error |-> OK,
           imap |-> Ext(bno, HOLESTARTBLOCK, Min(len, ext[i].br_startoff - bno), XFS_EXT_NORM)]
     ELSE [error |-> OK, imap |-> xfs_trim_extent(ext[i], bno, len)]

\* xfs_need_iread_extents: a fork in btree format whose records have not
\* been read in yet.
xfs_need_iread_extents(ifp) ==
  ifp.if_format = XFS_DINODE_FMT_BTREE /\ ~ifp.if_loaded

\* Lines 680-682: a preallocated or append-only file has only delayed
\* allocations to give back.  (First a variant that forgets append-only.)
can_free_prealloc_rule_noappend(ip) == ip.prealloc /\ ip.i_delayed_blks = 0
can_free_prealloc_rule(ip) == (ip.prealloc \/ ip.append) /\ ip.i_delayed_blks = 0

xfs_can_free_eofblocks(ip, m) ==
  LET end0 == XFS_B_TO_FSB(ip.i_size)
      end_fsb == IF ip.rt /\ m.sb_rextsize > 1 THEN roundup_64(end0, m.sb_rextsize) ELSE end0
      last_fsb == XFS_B_TO_FSB(s_maxbytes)
      r == xfs_bmapi_read(ip, m, end_fsb, last_fsb - end_fsb)
  IN IF ip.i_mode # "REG" THEN FALSE
     ELSE IF ip.i_size = 0 /\ ip.nrpages = 0 /\ ip.i_delayed_blks = 0 THEN FALSE
     ELSE IF xfs_need_iread_extents(ip.i_df) THEN FALSE
     ELSE IF can_free_prealloc_rule(ip) THEN FALSE
     ELSE IF last_fsb <= end_fsb THEN FALSE
     ELSE IF r.error # OK THEN FALSE
     ELSE r.imap.br_startblock # HOLESTARTBLOCK \/ ip.i_delayed_blks # 0

\* xfs_bmap_punch_delalloc_range: drop the delayed allocations of the data
\* fork in blocks [XFS_B_TO_FSBT(start_byte), XFS_B_TO_FSB(end_byte)), from
\* the last record down.
\* (First a variant that stops after the first record it deletes.)
punch_delalloc_once(ip, start_fsb, end_fsb) ==
  LET ext == ip.i_df.if_ext
      S == {i \in 1..Len(ext) : /\ isnullstartblock(ext[i].br_startblock)
                                /\ ext[i].br_startoff < end_fsb
                                /\ ExtEnd(ext[i]) > start_fsb
                                /\ start_fsb < end_fsb}
  IN IF S = {} THEN ip
     ELSE LET i == CHOOSE j \in S : \A k \in S : k <= j
              del == xfs_trim_extent(ext[i], start_fsb, end_fsb - start_fsb)
          IN FixFormat([ip EXCEPT
               !.i_df.if_ext = DelExtent(ext, i, del.br_startoff, ExtEnd(del)),
               !.i_delayed_blks = @ - del.br_blockcount])

RECURSIVE punch_delalloc(_, _, _)
punch_delalloc(ip, start_fsb, end_fsb) ==
  LET ext == ip.i_df.if_ext
      S == {i \in 1..Len(ext) : /\ isnullstartblock(ext[i].br_startblock)
                                /\ ext[i].br_startoff < end_fsb
                                /\ ExtEnd(ext[i]) > start_fsb
                                /\ start_fsb < end_fsb}
  IN IF S = {} THEN ip
     ELSE LET i == CHOOSE j \in S : \A k \in S : k <= j
              del == xfs_trim_extent(ext[i], start_fsb, end_fsb - start_fsb)
          IN punch_delalloc(
               FixFormat([ip EXCEPT
                 !.i_df.if_ext = DelExtent(ext, i, del.br_startoff, ExtEnd(del)),
                 !.i_delayed_blks = @ - del.br_blockcount]),
               start_fsb, end_fsb)

xfs_bmap_punch_delalloc_range(ip, start_byte, end_byte) ==
  punch_delalloc(ip, XFS_B_TO_FSBT(start_byte), XFS_B_TO_FSB(end_byte))

\* xfs_reflink_cancel_cow_range(ip, offset, NULLFILEOFF, true): drop the
\* staged copy-on-write blocks from block XFS_B_TO_FSBT(offset) on.
RECURSIVE CutFrom(_, _)
CutFrom(ext, bno) ==
  IF ext = << >> THEN ext
  ELSE LET n == Len(ext) IN
       IF ExtEnd(ext[n]) <= bno THEN ext
       ELSE IF ext[n].br_startoff >= bno THEN CutFrom(SubSeq(ext, 1, n - 1), bno)
       ELSE DelExtent(ext, n, bno, ExtEnd(ext[n]))

xfs_inode_has_cow_data(ip) == ip.i_cowfp.present /\ ip.i_cowfp.if_ext # << >>

xfs_reflink_cancel_cow_blocks(ip, offset_fsb) ==
  LET cut == CutFrom(ip.i_cowfp.if_ext, offset_fsb)
  IN [ip EXCEPT !.i_cowfp.if_ext = cut,
                !.i_delayed_blks = @ - (DelayedBlocks(ip.i_cowfp.if_ext) - DelayedBlocks(cut)),
                !.cowblocks_tag = IF cut = << >> THEN FALSE ELSE @]

xfs_reflink_cancel_cow_range(ip, offset) ==
  xfs_reflink_cancel_cow_blocks(ip, XFS_B_TO_FSBT(offset))

\* xfs_itruncate_extents_flags(&tp, ip, XFS_DATA_FORK, new_size, flags): unmap
\* every block from XFS_B_TO_FSB(new_size) on, two records a transaction,
\* and the staged copy-on-write blocks of that range.  Outcomes: done, or
\* an error before anything changed, or an error after the first pass.
RECURSIVE itruncate_loop(_, _)
itruncate_loop(ip, first_unmap_block) ==
  LET r == xfs_bunmapi(ip, first_unmap_block, MaxFileoff - first_unmap_block, unmap_nexts)
  IN IF r.done THEN r.ip ELSE itruncate_loop(r.ip, first_unmap_block)

xfs_itruncate_extents_flags(ip, new_size) ==
  LET first_unmap_block == XFS_B_TO_FSB(new_size)
      one == xfs_bunmapi(ip, first_unmap_block, MaxFileoff - first_unmap_block, unmap_nexts)
  IN IF first_unmap_block >= MaxFileoff THEN {[error |-> OK, ip |-> ip]}
     ELSE { [error |-> OK,
             ip |-> xfs_reflink_cancel_cow_blocks(itruncate_loop(ip, first_unmap_block),
                                                  first_unmap_block)],
            [error |-> "EIO", ip |-> ip],
            [error |-> "EIO", ip |-> one.ip] }

\* Line 744: where the punch of a preallocated file starts.
\* (First a variant that rounds down.)
free_eofblocks_punch_start_down(ip) == rounddown_64(ip.i_size, BlockSize)
free_eofblocks_punch_start(ip) == roundup_64(ip.i_size, BlockSize)

\* xfs_free_eofblocks: the outcomes, each with the error, the inode as the
\* call leaves it and whether the call shut the filesystem down.
xfs_free_eofblocks(ip, m) ==
  IF ip.prealloc \/ ip.append
  THEN {[error |-> OK, shutdown |-> FALSE,
         ip |-> IF ip.i_delayed_blks # 0
                THEN xfs_bmap_punch_delalloc_range(ip, free_eofblocks_punch_start(ip),
                                                   s_maxbytes)
                ELSE ip]}
  ELSE IF m.shutdown THEN {[error |-> "EIO", shutdown |-> TRUE, ip |-> ip]}
  ELSE { [error |-> r.error, ip |-> r.ip, shutdown |-> (r.ip # ip /\ r.error # OK)] :
           r \in xfs_itruncate_extents_flags(ip, ip.i_size) }
       \cup { [error |-> "EIO", shutdown |-> TRUE, ip |-> r.ip] :
           r \in {q \in xfs_itruncate_extents_flags(ip, ip.i_size) : q.error = OK} }

\* The call itself, on an inode whose extent list is in core.
free_eofblocks_call(ino) ==
  /\ pc = "idle"
  /\ \E r \in xfs_free_eofblocks(inodes[ino], mp) :
       /\ inodes' = [inodes EXCEPT ![ino] = r.ip]
       /\ mp' = [mp EXCEPT !.shutdown = @ \/ r.shutdown]
       /\ Return([NoLv EXCEPT !.op = "free_eofblocks", !.ip = ino], r.error)
  /\ UNCHANGED out

\* The call on its own, as the background scanner and release make it.
FreeEofblocks(ino) ==
  /\ xfs_can_free_eofblocks(inodes[ino], mp)
  /\ free_eofblocks_call(ino)

\* The check on its own: it returns its answer and changes nothing.
CanFreeEofblocks(ino) ==
  /\ pc = "idle"
  /\ Return([NoLv EXCEPT !.op = "can_free_eofblocks", !.ip = ino,
                         !.can = xfs_can_free_eofblocks(inodes[ino], mp)], OK)
  /\ UNCHANGED <<inodes, mp, out>>

(***************************************************************************)
(* xfs_flush_unmap_range and xfs_prepare_shift                             *)
(***************************************************************************)
xfs_inode_alloc_unitsize(ip, m) ==
  IF ip.rt THEN m.sb_rextsize * BlockSize ELSE BlockSize

\* Write back the delayed allocations of the rounded range and drop its
\* pages; start and end as the code rounds them.
flush_unmap_start(ip, m, offset) ==
  rounddown_64(offset, Max(xfs_inode_alloc_unitsize(ip, m), PAGE_SIZE))
flush_unmap_end(ip, m, offset, len) ==
  roundup_64(offset + len, Max(xfs_inode_alloc_unitsize(ip, m), PAGE_SIZE)) - 1

xfs_flush_unmap_range(ip, m, used, offset, len) ==
  LET start == flush_unmap_start(ip, m, offset)
      end == flush_unmap_end(ip, m, offset, len)
  IN {[error |-> "EIO", ip |-> ip]}
     \cup (IF m.shutdown /\ Dirty(ip, used, XFS_B_TO_FSBT(start), XFS_B_TO_FSB(end + 1))
           THEN {}
           ELSE {[error |-> OK,
                  ip |-> [Writeback(ip, used, XFS_B_TO_FSBT(start), XFS_B_TO_FSB(end + 1))
                            EXCEPT !.nrpages = IF start = 0 THEN 0 ELSE @]]})

\* A variant that stops at the unit that holds offset.
prepare_shift_offset_round(ip, m, offset) ==
  rounddown_64(offset, xfs_inode_alloc_unitsize(ip, m))

\* The offset xfs_prepare_shift flushes from: one allocation unit before
\* the unit that holds offset.
prepare_shift_offset(ip, m, offset) ==
  LET rounding == xfs_inode_alloc_unitsize(ip, m)
      o == rounddown_64(offset, rounding)
  IN IF o # 0 THEN o - rounding ELSE o

xfs_prepare_shift(ip, m, used, offset) ==
  LET E == IF xfs_can_free_eofblocks(ip, m) THEN xfs_free_eofblocks(ip, m)
           ELSE {[error |-> OK, ip |-> ip, shutdown |-> FALSE]}
      o(q) == prepare_shift_offset(q, m, offset)
      F(e) == { [error |-> f.error, ip |-> f.ip, shutdown |-> e.shutdown] :
                  f \in xfs_flush_unmap_range(e.ip, m, used, o(e.ip), e.ip.i_size) }
      C(f) == IF xfs_inode_has_cow_data(f.ip)
              THEN {[f EXCEPT !.error = "EIO"]}
                   \cup (IF m.shutdown THEN {}
                         ELSE {[f EXCEPT !.ip = xfs_reflink_cancel_cow_range(f.ip, o(f.ip))]})
              ELSE {f}
  IN {e \in E : e.error # OK}
     \cup UNION { {f \in F(e) : f.error # OK} : e \in {x \in E : x.error = OK} }
     \cup UNION { UNION { C(f) : f \in {y \in F(e) : y.error = OK} } :
                    e \in {x \in E : x.error = OK} }

(***************************************************************************)
(* The shift primitives of the extent map.                                 *)
(***************************************************************************)
NULLFSBLOCK == -1
\* The largest start offset a record can hold (54 bits in the source).
BMBT_STARTOFF_MASK == 7

\* xfs_bmse_can_merge: got, moved shift blocks down, continues left.
\* (The start block of a delayed allocation is no block number: in the
\* source its sum with the length is never the start block of got.)
xfs_bmse_can_merge(left, got, shift) ==
  /\ ExtEnd(left) = got.br_startoff - shift
  /\ ~isnullstartblock(left.br_startblock)
  /\ left.br_startblock + left.br_blockcount = got.br_startblock
  /\ left.br_state = got.br_state
  /\ left.br_blockcount + got.br_blockcount <= XFS_MAX_BMBT_EXTLEN

\* xfs_bmap_collapse_extents: move the record at or after next_fsb down by
\* offset_shift_fsb, merging it into its left neighbour when it fits.
xfs_bmap_collapse_extents(ip, next_fsb, offset_shift_fsb) ==
  LET ext == ip.i_df.if_ext
      i == xfs_iext_lookup_extent(ext, next_fsb)
      fail(e) == [error |-> e, ip |-> ip, next_fsb |-> next_fsb, done |-> FALSE]
  IN IF i = 0 THEN [error |-> OK, ip |-> ip, next_fsb |-> next_fsb, done |-> TRUE]
     ELSE LET got == ext[i]
              new_startoff == got.br_startoff - offset_shift_fsb
              merge == i > 1 /\ xfs_bmse_can_merge(ext[i - 1], got, offset_shift_fsb)
              ext2 == IF merge
                      THEN xfs_iext_remove(
                             [ext EXCEPT ![i - 1].br_blockcount = @ + got.br_blockcount], i)
                      ELSE [ext EXCEPT ![i].br_startoff = new_startoff]
              j == IF merge THEN i ELSE i + 1
          IN IF isnullstartblock(got.br_startblock) THEN fail("EFSCORRUPTED")
             ELSE IF i > 1 /\ new_startoff < ExtEnd(ext[i - 1]) THEN fail("EINVAL")
             ELSE IF i = 1 /\ got.br_startoff < offset_shift_fsb THEN fail("EINVAL")
             ELSE [error |-> OK,
                   ip |-> FixFormat([ip EXCEPT !.i_df.if_ext = ext2]),
                   next_fsb |-> IF j <= Len(ext2) THEN ext2[j].br_startoff ELSE next_fsb,
                   done |-> j > Len(ext2)]

\* xfs_bmap_can_insert_extents: the last record, moved up, must still have a
\* start offset the record format holds.
xfs_bmap_can_insert_extents(ip, m, off, shift) ==
  LET ext == ip.i_df.if_ext IN
  IF m.shutdown THEN "EIO"
  ELSE IF /\ ext # << >>
          /\ ext[Len(ext)].br_startoff >= off
          /\ (ext[Len(ext)].br_startoff + shift) % (BMBT_STARTOFF_MASK + 1)
               < ext[Len(ext)].br_startoff
  THEN "EINVAL"
  ELSE OK

\* xfs_bmap_split_extent: cut the record that holds split_fsb in two there.
xfs_bmap_split_extent(ip, split_fsb) ==
  LET ext == ip.i_df.if_ext
      i == xfs_iext_lookup_extent(ext, split_fsb)
  IN IF i = 0 \/ ext[i].br_startoff >= split_fsb THEN ip
     ELSE LET got == ext[i]
              gotblkoff == split_fsb - got.br_startoff
              new == Ext(split_fsb,
                         IF isnullstartblock(got.br_startblock) THEN got.br_startblock
                         ELSE got.br_startblock + gotblkoff,
                         got.br_blockcount - gotblkoff, got.br_state)
          IN FixFormat([ip EXCEPT !.i_df.if_ext =
               xfs_iext_insert([ext EXCEPT ![i].br_blockcount = gotblkoff], i + 1, new)])

\* xfs_bmap_insert_extents: move the record at next_fsb (the last record
\* when next_fsb is NULLFSBLOCK) up by offset_shift_fsb, never a record
\* that starts below stop_fsb.
xfs_bmap_insert_extents(ip, next_fsb, offset_shift_fsb, stop_fsb) ==
  LET ext == ip.i_df.if_ext
      i == IF next_fsb = NULLFSBLOCK THEN Len(ext) ELSE xfs_iext_lookup_extent(ext, next_fsb)
      fail(e) == [error |-> e, ip |-> ip, next_fsb |-> next_fsb, done |-> FALSE]
      finished == [error |-> OK, ip |-> ip, next_fsb |-> next_fsb, done |-> TRUE]
  IN IF i = 0 THEN finished
     ELSE IF next_fsb = NULLFSBLOCK /\ stop_fsb > ext[i].br_startoff THEN finished
     ELSE LET got == ext[i]
              new_startoff == got.br_startoff + offset_shift_fsb
              ext2 == [ext EXCEPT ![i].br_startoff = new_startoff]
          IN IF isnullstartblock(got.br_startblock) THEN fail("EFSCORRUPTED")
             ELSE IF stop_fsb > got.br_startoff THEN fail("EFSCORRUPTED")
             ELSE IF i < Len(ext) /\ new_startoff + got.br_blockcount > ext[i + 1].br_startoff
             THEN fail("EINVAL")
             ELSE [error |-> OK,
                   ip |-> [ip EXCEPT !.i_df.if_ext = ext2],
                   next_fsb |-> IF i > 1 THEN ext2[i - 1].br_startoff ELSE next_fsb,
                   done |-> (i = 1 \/ stop_fsb >= ExtEnd(ext2[i - 1]))]

(***************************************************************************)
(* xfs_collapse_file_space                                                 *)
(***************************************************************************)
collapse_next_fsb(offset, len) == XFS_B_TO_FSB(offset + len)
\* A variant that rounds the shift down instead of up.
collapse_shift_fsb_down(len) == XFS_B_TO_FSBT(len)
collapse_shift_fsb(len) == XFS_B_TO_FSB(len)

xfs_collapse_file_space(ino, offset, len) ==
  /\ pc = "idle"
  /\ free_file_space_enter([NoLv EXCEPT !.op = "collapse", !.ip = ino,
                                        !.offset = offset, !.len = len,
                                        !.next_fsb = collapse_next_fsb(offset, len),
                                        !.shift_fsb = collapse_shift_fsb(len)])
  /\ UNCHANGED <<inodes, mp, out>>

\* xfs_prepare_shift and the allocation of the transaction.
CollapsePrepare ==
  /\ pc = "prepare_shift" /\ lv.op = "collapse"
  /\ UNCHANGED <<h, out>>
  /\ \E r \in xfs_prepare_shift(inodes[lv.ip], mp, Used, lv.offset) :
       /\ inodes' = [inodes EXCEPT ![lv.ip] = r.ip]
       /\ mp' = [mp EXCEPT !.shutdown = @ \/ r.shutdown]
       /\ IF r.error # OK THEN Return(lv, r.error)
          ELSE \/ Return(lv, IF mp.shutdown \/ r.shutdown THEN "EIO" ELSE "ENOSPC")
               \/ /\ ~(mp.shutdown \/ r.shutdown)
                  /\ pc' = "collapse_shift"
                  /\ UNCHANGED <<lv, ret>>

\* The error exit (lines 1174-1177): xfs_trans_cancel drops the running
\* transaction; ip is the inode as the passes before and this one left it,
\* atcall the inode as it was when the call began.  (First a variant that
\* takes the whole call back.)
collapse_cancel_all(ip, atcall) == atcall
collapse_cancel(ip, atcall) == ip

\* One pass of the loop: one record moves, then the transaction rolls, or
\* commits when no record is left.
CollapseShift ==
  /\ pc = "collapse_shift"
  /\ UNCHANGED <<h, out>>
  /\ LET r == xfs_bmap_collapse_extents(inodes[lv.ip], lv.next_fsb, lv.shift_fsb)
     IN IF r.error # OK
        THEN /\ inodes' = [inodes EXCEPT ![lv.ip] = collapse_cancel(r.ip, h.pre[lv.ip])]
             /\ Return(lv, r.error)
             /\ UNCHANGED mp
        ELSE \/ \* xfs_defer_finish fails
                /\ ~r.done
                /\ inodes' = [inodes EXCEPT ![lv.ip] = collapse_cancel(r.ip, h.pre[lv.ip])]
                /\ mp' = [mp EXCEPT !.shutdown = TRUE]
                /\ Return(lv, "EIO")
             \/ \* xfs_trans_commit fails
                /\ r.done
                /\ inodes' = [inodes EXCEPT ![lv.ip] = r.ip]
                /\ mp' = [mp EXCEPT !.shutdown = TRUE]
                /\ Return(lv, "EIO")
             \/ /\ inodes' = [inodes EXCEPT ![lv.ip] = r.ip]
                /\ UNCHANGED mp
                /\ IF r.done THEN Return(lv, OK)
                   ELSE /\ lv' = [lv EXCEPT !.next_fsb = r.next_fsb]
                        /\ UNCHANGED <<pc, ret>>

(***************************************************************************)
(* xfs_insert_file_space                                                   *)
(***************************************************************************)
\* A variant that stops one block after the block of offset.
insert_stop_fsb_next(offset) == XFS_B_TO_FSB(offset) + 1
insert_stop_fsb(offset) == XFS_B_TO_FSB(offset)
insert_shift_fsb(len) == XFS_B_TO_FSB(len)

xfs_insert_file_space(ino, offset, len) ==
  LET l == [NoLv EXCEPT !.op = "insert", !.ip = ino, !.offset = offset, !.len = len,
                        !.stop_fsb = insert_stop_fsb(offset),
                        !.next_fsb = NULLFSBLOCK,
                        !.shift_fsb = insert_shift_fsb(len)]
      error == xfs_bmap_can_insert_extents(inodes[ino], mp, l.stop_fsb, l.shift_fsb)
  IN /\ pc = "idle"
     /\ IF error # OK THEN Return(l, error)
        ELSE pc' = "prepare_shift" /\ lv' = l /\ UNCHANGED ret
     /\ UNCHANGED <<inodes, mp, out>>

\* Line 1238: the record that holds stop_fsb is cut in two there.
\* (First a variant that leaves it whole.)
insert_split_skip(ip, stop_fsb) == ip
insert_split(ip, stop_fsb) == xfs_bmap_split_extent(ip, stop_fsb)

\* xfs_prepare_shift, the transaction, the extent count check and the split
\* of the record that holds stop_fsb.
InsertPrepare ==
  /\ pc = "prepare_shift" /\ lv.op = "insert"
  /\ UNCHANGED <<h, out>>
  /\ \E r \in xfs_prepare_shift(inodes[lv.ip], mp, Used, lv.offset) :
       /\ mp' = [mp EXCEPT !.shutdown = @ \/ r.shutdown]
       /\ IF r.error # OK
          THEN Return(lv, r.error) /\ inodes' = [inodes EXCEPT ![lv.ip] = r.ip]
          ELSE \/ /\ Return(lv, IF mp.shutdown \/ r.shutdown THEN "EIO" ELSE "ENOSPC")
                  /\ inodes' = [inodes EXCEPT ![lv.ip] = r.ip]
               \/ /\ ~(mp.shutdown \/ r.shutdown)
                  /\ Return(lv, "EFBIG")
                  /\ inodes' = [inodes EXCEPT ![lv.ip] = r.ip]
               \/ /\ ~(mp.shutdown \/ r.shutdown)
                  /\ inodes' = [inodes EXCEPT ![lv.ip] = insert_split(r.ip, lv.stop_fsb)]
                  /\ pc' = "insert_shift"
                  /\ UNCHANGED <<lv, ret>>

\* One pass of the loop: the deferred work finishes, one record moves.
InsertShift ==
  /\ pc = "insert_shift"
  /\ UNCHANGED <<h, out>>
  /\ LET r == xfs_bmap_insert_extents(inodes[lv.ip], lv.next_fsb, lv.shift_fsb, lv.stop_fsb)
     IN \/ \* xfs_defer_finish fails
           /\ mp' = [mp EXCEPT !.shutdown = TRUE]
           /\ Return(lv, "EIO")
           /\ UNCHANGED inodes
        \/ /\ inodes' = [inodes EXCEPT ![lv.ip] = r.ip]
           /\ IF r.error # OK THEN Return(lv, r.error) /\ UNCHANGED mp
              ELSE IF r.done
              THEN \/ Return(lv, OK) /\ UNCHANGED mp
                   \/ \* xfs_trans_commit fails
                      /\ Return(lv, "EIO")
                      /\ mp' = [mp EXCEPT !.shutdown = TRUE]
              ELSE /\ lv' = [lv EXCEPT !.next_fsb = r.next_fsb]
                   /\ UNCHANGED <<pc, ret, mp>>

(***************************************************************************)
(* xfs_swap_extents and its parts.                                         *)
(***************************************************************************)
XFS_BMAP_BMDR_SPACE(broot) == broot
xfs_inode_fork_boff(ip) == ip.i_dsize
xfs_inode_has_attr_fork(ip) == ip.i_af.present

\* Line 1308: the target may not have fewer records than the donor.
\* (First a variant with the two sides the other way round.)
swap_extent_count_rule_rev(ifp, tifp) == if_nextents(tifp.if_ext) < if_nextents(ifp.if_ext)
swap_extent_count_rule(ifp, tifp) == if_nextents(ifp.if_ext) < if_nextents(tifp.if_ext)

\* Lines 1348-1353 and 1357-1362: the index fork fp does not suit the inode
\* rcv that is to receive it: its root is larger than the data fork area
\* rcv's attribute fork leaves, or it has too few records for an index.
\* (First a variant that looks at the root alone.)
swap_btree_misfit_root(fp, rcv) ==
  xfs_inode_has_attr_fork(rcv) /\ XFS_BMAP_BMDR_SPACE(fp.if_broot) > xfs_inode_fork_boff(rcv)
swap_btree_misfit(fp, rcv) ==
  \/ /\ xfs_inode_has_attr_fork(rcv)
     /\ XFS_BMAP_BMDR_SPACE(fp.if_broot) > xfs_inode_fork_boff(rcv)
  \/ if_nextents(fp.if_ext) <= XFS_IFORK_MAXEXT(rcv)

xfs_swap_extents_check_format(ip, tip, m) ==
  LET ifp == ip.i_df
      tifp == tip.i_df
  IN IF m.quota_on /\ ip.ids # tip.ids THEN "EINVAL"
     ELSE IF ifp.if_format = XFS_DINODE_FMT_LOCAL \/ tifp.if_format = XFS_DINODE_FMT_LOCAL
     THEN "EINVAL"
     ELSE IF swap_extent_count_rule(ifp, tifp) THEN "EINVAL"
     ELSE IF m.rmapbt THEN OK
     ELSE IF ifp.if_format = XFS_DINODE_FMT_EXTENTS /\ tifp.if_format = XFS_DINODE_FMT_BTREE
     THEN "EINVAL"
     ELSE IF /\ tifp.if_format = XFS_DINODE_FMT_EXTENTS
             /\ if_nextents(tifp.if_ext) > XFS_IFORK_MAXEXT(ip)
     THEN "EINVAL"
     ELSE IF /\ ifp.if_format = XFS_DINODE_FMT_EXTENTS
             /\ if_nextents(ifp.if_ext) > XFS_IFORK_MAXEXT(tip)
     THEN "EINVAL"
     ELSE IF tifp.if_format = XFS_DINODE_FMT_BTREE /\ swap_btree_misfit(tifp, ip)
     THEN "EINVAL"
     ELSE IF ifp.if_format = XFS_DINODE_FMT_BTREE /\ swap_btree_misfit(ifp, tip)
     THEN "EINVAL"
     ELSE OK

\* xfs_swap_extent_flush: write the file back and drop its pages; pages
\* that stay (a mapping that cannot be invalidated) fail the call.
xfs_swap_extent_flush(ip, m, used) ==
  LET flushed == [Writeback(ip, used, 0, MaxFileoff) EXCEPT !.i_disk_size = ip.i_size]
  IN IF m.shutdown /\ flushed # ip THEN {[error |-> "EIO", ip |-> ip]}
     ELSE { [error |-> "EIO", ip |-> ip],
            [error |-> OK, ip |-> [flushed EXCEPT !.nrpages = 0]] }
          \cup (IF ip.nrpages # 0 THEN {[error |-> "EINVAL", ip |-> flushed]} ELSE {})

\* Lines 1699-1710: flush both files, cancel the donor's staged blocks.
swap_flush(ip, tip, m, used) ==
  LET A == xfs_swap_extent_flush(ip, m, used)
      B(a) == { [error |-> b.error, ip |-> a.ip, tip |-> b.ip] :
                  b \in xfs_swap_extent_flush(tip, m, used \cup PhysOf(a.ip.i_df.if_ext)) }
      C(b) == IF xfs_inode_has_cow_data(b.tip)
              THEN {[b EXCEPT !.error = "EIO"]}
                   \cup (IF m.shutdown THEN {}
                         ELSE {[b EXCEPT !.tip = xfs_reflink_cancel_cow_range(b.tip, 0)]})
              ELSE {b}
  IN { [error |-> a.error, ip |-> a.ip, tip |-> tip] : a \in {x \in A : x.error # OK} }
     \cup UNION { {b \in B(a) : b.error # OK} : a \in {x \in A : x.error = OK} }
     \cup UNION { UNION { C(b) : b \in {y \in B(a) : y.error = OK} } :
                    a \in {x \in A : x.error = OK} }

\* xfs_bmap_count_blocks(tp, ip, XFS_ATTR_FORK, ...): the blocks of the
\* attribute fork, the blocks of its index among them.
xfs_bmap_count_blocks(ip) ==
  RealBlocks(ip.i_af.if_ext)
    + (IF ip.i_af.if_format = XFS_DINODE_FMT_BTREE THEN ip.i_af.btblocks ELSE 0)

attr_fork_counted(ip) ==
  /\ xfs_inode_has_attr_fork(ip)
  /\ if_nextents(ip.i_af.if_ext) > 0
  /\ ip.i_af.if_format # XFS_DINODE_FMT_LOCAL

\* xfs_swap_extent_forks past the attribute fork counts: the two inodes
\* and the two sets of log flags as it leaves them.
\* (First a variant that leaves the forks where they are.)
xfs_swap_extent_forks_keep(ip, tip, m) ==
  [ip |-> ip, tip |-> tip, src_log_flags |-> {"XFS_ILOG_CORE"},
   target_log_flags |-> {"XFS_ILOG_CORE"}]

xfs_swap_extent_forks(ip, tip, m) ==
  LET aforkblks == IF attr_fork_counted(ip) THEN xfs_bmap_count_blocks(ip) ELSE 0
      taforkblks == IF attr_fork_counted(tip) THEN xfs_bmap_count_blocks(tip) ELSE 0
      downer_t == m.v3inodes /\ ip.i_df.if_format = XFS_DINODE_FMT_BTREE
      downer_s == m.v3inodes /\ tip.i_df.if_format = XFS_DINODE_FMT_BTREE
      ip2 == [ip EXCEPT !.i_df = tip.i_df,
                        !.i_nblocks = tip.i_nblocks - taforkblks + aforkblks,
                        !.i_delayed_blks = 0]
      tip2 == [tip EXCEPT !.i_df = ip.i_df,
                          !.i_nblocks = ip.i_nblocks + taforkblks - aforkblks,
                          !.i_delayed_blks = ip.i_delayed_blks]
      fmt(q) == IF q.i_df.if_format = XFS_DINODE_FMT_EXTENTS THEN {"XFS_ILOG_DEXT"}
                ELSE IF q.i_df.if_format = XFS_DINODE_FMT_BTREE THEN {"XFS_ILOG_DBROOT"}
                ELSE {}
  IN [ip |-> ip2, tip |-> tip2,
      src_log_flags |-> {"XFS_ILOG_CORE"} \cup fmt(ip2)
                          \cup (IF downer_s THEN {"XFS_ILOG_DOWNER"} ELSE {}),
      target_log_flags |-> {"XFS_ILOG_CORE"} \cup fmt(tip2)
                          \cup (IF downer_t THEN {"XFS_ILOG_DOWNER"} ELSE {})]

\* xfs_swap_change_owner: the index blocks of ip's data fork get ip's
\* number; the scan may also fail.
xfs_swap_change_owner(ip, ino) ==
  { [error |-> OK, ip |-> [ip EXCEPT !.i_df.if_owner = ino]],
    [error |-> "EIO", ip |-> ip] }

\* Lines 1806-1833: the reflink flags change places when they differ, and
\* on a filesystem with reflink so do the copy-on-write forks.
\* (First a variant that gives both files the flag if either has it.)
swap_flags_cow_either(ip, tip, m) ==
  [ip |-> [ip EXCEPT !.reflink = ip.reflink \/ tip.reflink],
   tip |-> [tip EXCEPT !.reflink = ip.reflink \/ tip.reflink]]
swap_flags_cow(ip, tip, m) ==
  LET ip1 == [ip EXCEPT !.reflink = tip.reflink]
      tip1 == [tip EXCEPT !.reflink = ip.reflink]
  IN IF m.reflink
     THEN [ip |-> [ip1 EXCEPT !.i_cowfp = tip.i_cowfp,
                              !.cowblocks_tag = xfs_inode_has_cow_data(tip)],
           tip |-> [tip1 EXCEPT !.i_cowfp = ip.i_cowfp,
                                !.cowblocks_tag = xfs_inode_has_cow_data(ip)]]
     ELSE [ip |-> ip1, tip |-> tip1]

\* Lines 1806-1862, after either algorithm: the outcomes.
swap_tail(f, ino, tino, m) ==
  LET x == swap_flags_cow(f.ip, f.tip, m)
      S == IF "XFS_ILOG_DOWNER" \in f.src_log_flags
           THEN { [error |-> r.error, ip |-> r.ip, tip |-> x.tip] :
                    r \in xfs_swap_change_owner(x.ip, ino) }
           ELSE {[error |-> OK, ip |-> x.ip, tip |-> x.tip]}
      T(q) == IF "XFS_ILOG_DOWNER" \in f.target_log_flags
              THEN { [error |-> r.error, ip |-> q.ip, tip |-> r.ip] :
                       r \in xfs_swap_change_owner(q.tip, tino) }
              ELSE {q}
      owned == {q \in S : q.error # OK}
                 \cup UNION { T(q) : q \in {y \in S : y.error = OK} }
  IN owned \cup { [q EXCEPT !.error = "EIO"] : q \in {y \in owned : y.error = OK} }

\* One piece of xfs_swap_extent_rmap (lines 1419-1499): the donor's
\* mapping at offset_fsb and the target's mapping of the same blocks change
\* places, as far as the shorter of the two runs.
\* (First a variant that maps the incoming records over the old ones
\* without unmapping those.)
swap_rmap_piece_keep(ip, tip, m, offset_fsb, count_fsb) ==
  LET tirec == xfs_bmapi_read(tip, m, offset_fsb, count_fsb).imap
      irec == xfs_bmapi_read(ip, m, tirec.br_startoff, tirec.br_blockcount).imap
      rlen == Min(tirec.br_blockcount, irec.br_blockcount)
      uirec == [tirec EXCEPT !.br_blockcount = rlen]
      map(q, rec) ==
        IF xfs_bmap_is_real_extent(rec)
        THEN [q EXCEPT !.i_df.if_ext = AddExtentHole(@, rec),
                       !.i_nblocks = @ + rec.br_blockcount]
        ELSE q
  IN [ip |-> FixFormat(map(ip, uirec)),
      tip |-> FixFormat(map(tip, irec)),
      rlen |-> rlen,
      real |-> xfs_bmap_is_real_extent(uirec) \/ xfs_bmap_is_real_extent(irec)]
swap_rmap_piece(ip, tip, m, offset_fsb, count_fsb) ==
  LET tirec == xfs_bmapi_read(tip, m, offset_fsb, count_fsb).imap
      irec == xfs_bmapi_read(ip, m, tirec.br_startoff, tirec.br_blockcount).imap
      rlen == Min(tirec.br_blockcount, irec.br_blockcount)
      uirec == [tirec EXCEPT !.br_blockcount = rlen]
      unmap(q, rec) ==
        IF xfs_bmap_is_real_extent(rec)
        THEN [q EXCEPT !.i_df.if_ext =
                         DelExtent(@, xfs_iext_lookup_extent(@, rec.br_startoff),
                                   rec.br_startoff, ExtEnd(rec)),
                       !.i_nblocks = @ - rec.br_blockcount]
        ELSE q
      map(q, rec) ==
        IF xfs_bmap_is_real_extent(rec)
        THEN [q EXCEPT !.i_df.if_ext = AddExtentHole(@, rec),
                       !.i_nblocks = @ + rec.br_blockcount]
        ELSE q
  IN [ip |-> FixFormat(map(unmap(ip, irec), uirec)),
      tip |-> FixFormat(map(unmap(tip, uirec), irec)),
      rlen |-> rlen,
      real |-> xfs_bmap_is_real_extent(uirec) \/ xfs_bmap_is_real_extent(irec)]

\* Lines 1780-1786: the timestamps handed in are those of the target.
\* (First a variant that does not look.)
swap_stat_check_none(ip, sx_stat) == OK
swap_stat_check(ip, sx_stat) == IF sx_stat # ip.tstamp THEN "EBUSY" ELSE OK

\* The call returns error with the two inodes as given.
SwapReturn(l, ino, tino, ip, tip, error, shut) ==
  /\ inodes' = [inodes EXCEPT ![ino] = ip, ![tino] = tip]
  /\ mp' = [mp EXCEPT !.shutdown = @ \/ shut]
  /\ Return(l, error)

\* The tail of the call, run on the result f of either algorithm.
SwapFinish(l, ino, tino, f) ==
  \E r \in swap_tail(f, ino, tino, mp) :
    SwapReturn([l EXCEPT !.src_log_flags = f.src_log_flags,
                         !.target_log_flags = f.target_log_flags],
               ino, tino, r.ip, r.tip, r.error, r.error # OK)

\* Lines 1405-1413: while the remap runs the donor is flagged as having
\* shared blocks if the target is; tip_flags2 keeps the donor's own flag.
rmap_flag_donor(ip, tip) == [tip EXCEPT !.reflink = @ \/ ip.reflink]

\* Lines 1506 and 1511: the donor's flag is put back on either return.
\* (First a variant that leaves the flag as the loop had it.)
rmap_restore_none(tip, tip_flags2) == tip
rmap_restore(tip, tip_flags2) == [tip EXCEPT !.reflink = tip_flags2]

\* xfs_swap_extents past the flush (lines 1712-1862), r an outcome of
\* the flush that did not fail; Then is what follows the structural swap.
swap_flushed_to(l, ino, tino, r, sxp, Then(_, _, _, _)) ==
  LET ip == r.ip
      tip == r.tip
      fmt == xfs_swap_extents_check_format(ip, tip, mp)
  IN IF mp.shutdown THEN SwapReturn(l, ino, tino, ip, tip, "EIO", FALSE)
     ELSE \/ SwapReturn(l, ino, tino, ip, tip, "ENOSPC", FALSE)
          \/ IF \/ sxp.sx_offset # 0
                \/ sxp.sx_length # ip.i_disk_size
                \/ sxp.sx_length # tip.i_disk_size
             THEN SwapReturn(l, ino, tino, ip, tip, "EFAULT", FALSE)
             ELSE IF fmt # OK THEN SwapReturn(l, ino, tino, ip, tip, fmt, FALSE)
             ELSE IF swap_stat_check(ip, sxp.sx_stat) # OK
             THEN SwapReturn(l, ino, tino, ip, tip,
                             swap_stat_check(ip, sxp.sx_stat), FALSE)
             ELSE IF mp.rmapbt
             THEN /\ inodes' = [inodes EXCEPT ![ino] = ip, ![tino] = rmap_flag_donor(ip, tip)]
                  /\ pc' = "swap_rmap"
                  /\ lv' = [l EXCEPT !.offset_fsb = 0,
                                     !.count_fsb = XFS_B_TO_FSB(ip.i_size),
                                     !.tip_flags2 = tip.reflink,
                                     !.src_log_flags = {"XFS_ILOG_CORE"},
                                     !.target_log_flags = {"XFS_ILOG_CORE"}]
                  /\ UNCHANGED <<mp, ret>>
             ELSE \/ \* xfs_bmap_count_blocks fails
                     /\ (attr_fork_counted(ip) \/ attr_fork_counted(tip))
                     /\ SwapReturn(l, ino, tino, ip, tip, "EIO", FALSE)
                  \/ Then(l, ino, tino, xfs_swap_extent_forks(ip, tip, mp))

swap_flushed(l, ino, tino, r, sxp) == swap_flushed_to(l, ino, tino, r, sxp, SwapFinish)

\* The local variables of a call of xfs_swap_extents.
swap_locals(ino, tino, sxp) ==
  [NoLv EXCEPT !.op = "swap", !.ip = ino, !.tip = tino,
               !.offset = sxp.sx_offset, !.len = sxp.sx_length,
               !.sx_stat = sxp.sx_stat]

\* sxp: sx_offset, sx_length and the timestamps of sx_stat.
xfs_swap_extents_to(ino, tino, sxp, Then(_, _, _, _)) ==
  LET l == swap_locals(ino, tino, sxp)
      ip0 == inodes[ino]
      tip0 == inodes[tino]
  IN /\ pc = "idle"
     /\ UNCHANGED out
     /\ IF ip0.i_mode # tip0.i_mode THEN SwapReturn(l, ino, tino, ip0, tip0, "EINVAL", FALSE)
        ELSE IF ip0.rt # tip0.rt THEN SwapReturn(l, ino, tino, ip0, tip0, "EINVAL", FALSE)
        ELSE \E r \in swap_flush(ip0, tip0, mp, Used) :
               IF r.error # OK THEN SwapReturn(l, ino, tino, r.ip, r.tip, r.error, FALSE)
               ELSE swap_flushed_to(l, ino, tino, r, sxp, Then)

xfs_swap_extents(ino, tino, sxp) == xfs_swap_extents_to(ino, tino, sxp, SwapFinish)

\* xfs_swap_extent_rmap, a piece at a time, and the tail when none is left.
SwapRmap ==
  /\ pc = "swap_rmap"
  /\ UNCHANGED <<h, out>>
  /\ LET ip == inodes[lv.ip]
         tip == inodes[lv.tip]
         r == swap_rmap_piece(ip, tip, mp, lv.offset_fsb, lv.count_fsb)
     IN IF lv.count_fsb = 0
        THEN SwapFinish(lv, lv.ip, lv.tip,
                        [ip |-> ip, tip |-> rmap_restore(tip, lv.tip_flags2),
                         src_log_flags |-> lv.src_log_flags,
                         target_log_flags |-> lv.target_log_flags])
        ELSE \/ \* the extent count check fails
                /\ r.real
                /\ SwapReturn(lv, lv.ip, lv.tip, ip, rmap_restore(tip, lv.tip_flags2),
                              "EFBIG", FALSE)
             \/ \* xfs_defer_finish fails
                SwapReturn(lv, lv.ip, lv.tip, r.ip, rmap_restore(r.tip, lv.tip_flags2),
                           "EIO", TRUE)
             \/ /\ inodes' = [inodes EXCEPT ![lv.ip] = r.ip, ![lv.tip] = r.tip]
                /\ lv' = [lv EXCEPT !.offset_fsb = @ + r.rlen, !.count_fsb = @ - r.rlen]
                /\ UNCHANGED <<pc, ret, mp>>

(***************************************************************************)
(* Inputs of the calls.                                                    *)
(***************************************************************************)
\* Byte offsets and lengths; lengths include 0 and a negative one.
Offsets == 0..(MaxFsb * BlockSize)
Lengths == (-1)..(MaxFsb * BlockSize)

(***************************************************************************)
(* SpecAlloc: xfs_alloc_file_space on one file, from every generated fork. *)
(***************************************************************************)
InitAlloc ==
  /\ \E f \in Forks(Kinds, 0), size \in {0, MaxFsb * BlockSize} :
       inodes = [i \in Ino |-> IF i = 1 THEN MkInode(f, size) ELSE MkInode(<<>>, 0)]
  /\ mp = MkMount
  /\ pc = "idle"
  /\ lv = NoLv
  /\ ret = NoRet
  /\ h = NoHist
  /\ out = NoOut

AllocCall ==
  /\ h.n = 0
  /\ \E offset \in Offsets, len \in Lengths : xfs_alloc_file_space(1, offset, len)
  /\ Enter

\* The query of the range just allocated, with room for every record.
BmapAfterAlloc ==
  /\ h.n = 1
  /\ ret.op = "alloc" /\ ret.error = OK
  /\ \E iflags \in SUBSET {"BMV_IF_PREALLOC", "BMV_IF_NO_HOLES"} :
       xfs_getbmap(1, [bmv_offset |-> ret.offset, bmv_length |-> ret.len,
                       bmv_count |-> 2 * MaxFsb + 4, bmv_entries |-> 0,
                       bmv_iflags |-> iflags])
  /\ Enter

NextAlloc == AllocCall \/ AllocIter \/ BmapAfterAlloc
SpecAlloc == InitAlloc /\ [][NextAlloc]_vars

(***************************************************************************)
(* What a fork maps a logical block to.                                    *)
(***************************************************************************)
Hole == [blk |-> HOLESTARTBLOCK, st |-> XFS_EXT_NORM]
MapAt(ext, b) ==
  LET S == {i \in 1..Len(ext) : ext[i].br_startoff <= b /\ b < ExtEnd(ext[i])}
  IN IF S = {} THEN Hole
     ELSE LET i == CHOOSE j \in S : TRUE
          IN [blk |-> IF isnullstartblock(ext[i].br_startblock) THEN DELAYSTARTBLOCK
                      ELSE ext[i].br_startblock + (b - ext[i].br_startoff),
              st |-> ext[i].br_state]
IsReal(m) == m.blk \notin {HOLESTARTBLOCK, DELAYSTARTBLOCK}
\* Logical blocks a fork of the model can map.
AllBlocks == 0..(2 * MaxFsb + 1)

\* Records are sorted by start offset and do not overlap, none is empty.
SortedExtents(ext) ==
  /\ \A i \in 1..Len(ext) : ext[i].br_blockcount > 0 /\ ext[i].br_startoff >= 0
  /\ \A i \in 1..(Len(ext) - 1) : ExtEnd(ext[i]) <= ext[i + 1].br_startoff

Returned(op) == pc = "idle" /\ ret.op = op

(***************************************************************************)
(* C2: when xfs_alloc_file_space(ip, offset, len) with len > 0 returns     *)
(* success, every block of [floor(offset/bs), ceil((offset+len)/bs)) maps  *)
(* to a real extent and the inode carries the preallocation flag; on an    *)
(* empty file exactly that block range is mapped.                          *)
(***************************************************************************)
C2_AllocMapsRange ==
  (Returned("alloc") /\ ret.error = OK /\ ret.len > 0) =>
    LET ip == inodes[ret.ip]
        lo == ret.offset \div BlockSize
        hi == (ret.offset + ret.len + BlockSize - 1) \div BlockSize
    IN /\ \A b \in lo..(hi - 1) : IsReal(MapAt(ip.i_df.if_ext, b))
       /\ ip.prealloc
       /\ h.pre[ret.ip].i_df.if_ext = <<>> =>
            \A b \in AllBlocks : IsReal(MapAt(ip.i_df.if_ext, b)) <=> (lo <= b /\ b < hi)

C2_Witness ==
  /\ Returned("alloc") /\ ret.error = OK
  /\ ret.offset % BlockSize = 1 /\ (ret.offset + ret.len) % BlockSize = 1
  /\ h.pre[ret.ip].i_df.if_ext = <<>>
  /\ Len(inodes[ret.ip].i_df.if_ext) = 1
  /\ inodes[ret.ip].i_df.if_ext[1].br_startoff = ret.offset \div BlockSize
  /\ inodes[ret.ip].i_df.if_ext[1].br_blockcount = 2
  /\ inodes[ret.ip].i_df.if_ext[1].br_state = XFS_EXT_UNWRITTEN

RECURSIVE SumBmvLength(_)
SumBmvLength(o) == IF o = <<>> THEN 0 ELSE o[1].bmv_length + SumBmvLength(Tail(o))

(***************************************************************************)
(* C3: after a successful xfs_alloc_file_space over a range, xfs_getbmap   *)
(* over the same range with room for every record reports only mapped      *)
(* records, no hole record, and the reported lengths sum to no less than   *)
(* the requested length.                                                   *)
(***************************************************************************)
AllocThenBmap ==
  /\ Returned("getbmap") /\ ret.error = OK
  /\ h.n = 2 /\ h.prev.op = "alloc" /\ h.prev.error = OK
  /\ h.prev.offset = ret.offset /\ h.prev.len = ret.len

C3_RoundTrip ==
  AllocThenBmap =>
    /\ \A k \in 1..Len(out.out) : out.out[k].bmv_block >= 0
    /\ SumBmvLength(out.out) >= ret.len

(***************************************************************************)
(* SpecFree: xfs_free_file_space on one file, from every generated fork.   *)
(***************************************************************************)
InitFree ==
  /\ \E f \in Forks(Kinds, 0),
        size \in {BlockSize + 1, MaxFsb * BlockSize - 1, MaxFsb * BlockSize} :
       inodes = [i \in Ino |-> IF i = 1 THEN MkInode(f, size) ELSE MkInode(<<>>, 0)]
  /\ mp = MkMount
  /\ pc = "idle"
  /\ lv = NoLv
  /\ ret = NoRet
  /\ h = NoHist
  /\ out = NoOut

FreeCall ==
  /\ h.n = 0
  /\ \E offset \in Offsets, len \in Lengths : xfs_free_file_space(1, offset, len)
  /\ Enter

NextFree == FreeCall \/ FreeUnmap \/ FreeZero
SpecFree == InitFree /\ [][NextFree]_vars

(***************************************************************************)
(* C4: when xfs_free_file_space(ip, offset, len) on a non-realtime file    *)
(* returns success, every block lying wholly inside [offset, offset+len)   *)
(* is unmapped, every block outside the clamped block range keeps exactly  *)
(* its previous mapping, and a single extent that strictly contains the    *)
(* range is left as two extents, one on each side of the hole.             *)
(***************************************************************************)
FreeDone ==
  /\ Returned("free") /\ ret.error = OK /\ ret.len > 0
  /\ h.n = 1 /\ ~h.pre[ret.ip].rt

FreeInsideUnmapped ==
  \A b \in AllBlocks :
    (b * BlockSize >= ret.offset /\ (b + 1) * BlockSize <= ret.offset + ret.len)
      => MapAt(inodes[ret.ip].i_df.if_ext, b) = Hole

\* The two records left of record e when blocks [s, t) are cut out of it.
SplitAround(e, s, t) ==
  << Ext(e.br_startoff, e.br_startblock, s - e.br_startoff, e.br_state),
     Ext(t, IF isnullstartblock(e.br_startblock) THEN e.br_startblock
            ELSE e.br_startblock + (t - e.br_startoff),
         ExtEnd(e) - t, e.br_state) >>

C4_FreeUnmapsRange ==
  FreeDone =>
    LET pre == h.pre[ret.ip].i_df.if_ext
        post == inodes[ret.ip].i_df.if_ext
        s == XFS_B_TO_FSB(ret.offset)
        t == XFS_B_TO_FSBT(ret.offset + ret.len)
    IN /\ FreeInsideUnmapped
       /\ \A b \in AllBlocks : ~(s <= b /\ b < t) => MapAt(post, b) = MapAt(pre, b)
       /\ \A i \in 1..Len(pre) :
            (pre[i].br_startoff * BlockSize < ret.offset
               /\ ret.offset + ret.len < ExtEnd(pre[i]) * BlockSize)
            => post = SubSeq(pre, 1, i - 1) \o SplitAround(pre[i], s, t)
                        \o SubSeq(pre, i + 1, Len(pre))

(***************************************************************************)
(* C4 as the code has it: the blocks wholly inside the range are unmapped; *)
(* a block outside the clamped block range keeps its mapping, except that  *)
(* a delayed allocation below end of file may have been written back when  *)
(* the zeroing ended at an end of file that is not page aligned; and a     *)
(* single extent that strictly contains a non-empty clamped block range    *)
(* is left as two records, one on each side of the hole, unless it is a    *)
(* delayed allocation and that write-back ran.                             *)
(***************************************************************************)
FlushedEof ==
  /\ ret.offset + ret.len >= h.pre[ret.ip].i_size
  /\ h.pre[ret.ip].i_size % PAGE_SIZE > 0
  /\ ret.offset < h.pre[ret.ip].i_size

C4_FreeUnmapsRange_Amended ==
  FreeDone =>
    LET pre == h.pre[ret.ip].i_df.if_ext
        post == inodes[ret.ip].i_df.if_ext
        s == XFS_B_TO_FSB(ret.offset)
        t == XFS_B_TO_FSBT(ret.offset + ret.len)
        eof == XFS_B_TO_FSB(h.pre[ret.ip].i_size)
    IN /\ FreeInsideUnmapped
       /\ \A b \in AllBlocks : ~(s <= b /\ b < t) =>
            \/ MapAt(post, b) = MapAt(pre, b)
            \/ /\ FlushedEof /\ b < eof
               /\ MapAt(pre, b).blk = DELAYSTARTBLOCK
               /\ IsReal(MapAt(post, b))
       /\ \A i \in 1..Len(pre) :
            (pre[i].br_startoff * BlockSize < ret.offset
               /\ ret.offset + ret.len < ExtEnd(pre[i]) * BlockSize
               /\ s < t /\ (xfs_bmap_is_real_extent(pre[i]) \/ ~FlushedEof))
            => post = SubSeq(pre, 1, i - 1) \o SplitAround(pre[i], s, t)
                        \o SubSeq(pre, i + 1, Len(pre))

\* A record strictly contains a punched range of whole blocks and is split.
C4_Witness ==
  /\ FreeDone
  /\ Len(h.pre[ret.ip].i_df.if_ext) = 1
  /\ xfs_bmap_is_real_extent(h.pre[ret.ip].i_df.if_ext[1])
  /\ h.pre[ret.ip].i_df.if_ext[1].br_startoff * BlockSize < ret.offset
  /\ ret.offset + ret.len < ExtEnd(h.pre[ret.ip].i_df.if_ext[1]) * BlockSize
  /\ XFS_B_TO_FSB(ret.offset) < XFS_B_TO_FSBT(ret.offset + ret.len)
  /\ Len(inodes[ret.ip].i_df.if_ext) = 2

(***************************************************************************)
(* SpecShift: xfs_collapse_file_space on one file, then                    *)
(* xfs_insert_file_space with the same offset and length.                  *)
(***************************************************************************)
InitShift ==
  /\ \E f \in Forks(Kinds, 0), size \in {BlockSize + 1, MaxFsb * BlockSize},
        pre \in BOOLEAN :
       inodes = [i \in Ino |->
                   IF i = 1 THEN [MkInode(f, size) EXCEPT !.prealloc = pre]
                   ELSE MkInode(<< >>, 0)]
  /\ mp = MkMount
  /\ pc = "idle"
  /\ lv = NoLv
  /\ ret = NoRet
  /\ h = NoHist
  /\ out = NoOut

CollapseCall ==
  /\ h.n = 0
  /\ \E offset \in Offsets, len \in Lengths : xfs_collapse_file_space(1, offset, len)
  /\ Enter

InsertAfterCollapse ==
  /\ h.n = 1
  /\ pc = "idle" /\ ret.op = "collapse" /\ ret.error = OK
  /\ xfs_insert_file_space(1, ret.offset, ret.len)
  /\ Enter

NextShift ==
  \/ CollapseCall
  \/ FreeUnmap
  \/ FreeZero
  \/ CollapsePrepare
  \/ CollapseShift
  \/ InsertAfterCollapse
  \/ InsertPrepare
  \/ InsertShift
SpecShift == InitShift /\ [][NextShift]_vars

(***************************************************************************)
(* C9: xfs_collapse_file_space(ip, offset, len) followed by                *)
(* xfs_insert_file_space(ip, offset, len) with the same offset and length, *)
(* both succeeding, leaves every logical block of the file mapped to the   *)
(* same physical block as before the two calls.                            *)
(***************************************************************************)
CollapseThenInsert ==
  /\ Returned("insert") /\ ret.error = OK
  /\ h.n = 2 /\ h.prev.op = "collapse" /\ h.prev.error = OK
  /\ h.prev.offset = ret.offset /\ h.prev.len = ret.len

C9_CollapseInsert ==
  CollapseThenInsert =>
    \A b \in AllBlocks :
      MapAt(inodes[ret.ip].i_df.if_ext, b).blk = MapAt(h.first[ret.ip].i_df.if_ext, b).blk

(***************************************************************************)
(* C9 as the code has it: for a block-aligned offset and length, the       *)
(* blocks of [offset, offset+len) are holes after the two calls (collapse  *)
(* freed them), and every block outside that range that was real before    *)
(* and lay below end of file, or in a file with the preallocation flag,    *)
(* maps to the same physical block in the same state.                      *)
(***************************************************************************)
Aligned(x) == x % BlockSize = 0

\* A real block that end-of-file reclamation leaves alone.
Kept(ip, b) ==
  /\ IsReal(MapAt(ip.i_df.if_ext, b))
  /\ (b < XFS_B_TO_FSB(ip.i_size) \/ ip.prealloc \/ ip.append)

C9_CollapseInsert_Amended ==
  (CollapseThenInsert /\ Aligned(ret.offset) /\ Aligned(ret.len) /\ ret.len > 0) =>
    LET pre == h.first[ret.ip]
        post == inodes[ret.ip].i_df.if_ext
        s == ret.offset \div BlockSize
        t == (ret.offset + ret.len) \div BlockSize
    IN \A b \in AllBlocks :
         IF s <= b /\ b < t THEN MapAt(post, b) = Hole
         ELSE Kept(pre, b) => MapAt(post, b) = MapAt(pre.i_df.if_ext, b)

\* Blocks moved down and up again: a real block after the range is back.
C9_Witness ==
  /\ CollapseThenInsert /\ Aligned(ret.offset) /\ Aligned(ret.len) /\ ret.len > 0
  /\ \E b \in AllBlocks :
       /\ b >= (ret.offset + ret.len) \div BlockSize
       /\ Kept(h.first[ret.ip], b)
       /\ IsReal(MapAt(h.first[ret.ip].i_df.if_ext, ret.offset \div BlockSize))
       /\ MapAt(h.pre[ret.ip].i_df.if_ext, b) # MapAt(h.first[ret.ip].i_df.if_ext, b)
       /\ MapAt(inodes[ret.ip].i_df.if_ext, b) = MapAt(h.first[ret.ip].i_df.if_ext, b)

(***************************************************************************)
(* C10: after a successful xfs_collapse_file_space(ip, offset, len), the   *)
(* file's logical size is smaller by len and every extent that started at  *)
(* or after offset+len starts len lower with unchanged length and physical *)
(* blocks.                                                                 *)
(***************************************************************************)
CollapseDone ==
  /\ Returned("collapse") /\ ret.error = OK /\ ret.len > 0
  /\ h.n = 1

C10_Collapse ==
  CollapseDone =>
    LET pre == h.pre[ret.ip]
        post == inodes[ret.ip]
    IN /\ post.i_size = pre.i_size - ret.len
       /\ \A i \in 1..Len(pre.i_df.if_ext) :
            LET e == pre.i_df.if_ext[i] IN
            e.br_startoff * BlockSize >= ret.offset + ret.len =>
              \E j \in 1..Len(post.i_df.if_ext) :
                LET g == post.i_df.if_ext[j] IN
                /\ g.br_startoff * BlockSize = e.br_startoff * BlockSize - ret.len
                /\ g.br_blockcount = e.br_blockcount
                /\ g.br_startblock = e.br_startblock
                /\ g.br_state = e.br_state

(***************************************************************************)
(* C10 as the code has it: xfs_collapse_file_space leaves the file's size  *)
(* as it was (its caller sets the new size), and every block at or after   *)
(* ceil((offset+len)/bs) that was real and lay below end of file, or in a  *)
(* file with the preallocation flag, is mapped ceil(len/bs) blocks lower   *)
(* to the same physical block in the same state; its record may have       *)
(* merged with the record on its left.                                     *)
(***************************************************************************)
C10_Collapse_Amended ==
  CollapseDone =>
    LET pre == h.pre[ret.ip]
        post == inodes[ret.ip]
        next_fsb == (ret.offset + ret.len + BlockSize - 1) \div BlockSize
        shift_fsb == (ret.len + BlockSize - 1) \div BlockSize
    IN /\ post.i_size = pre.i_size
       /\ \A b \in AllBlocks :
            (b >= next_fsb /\ Kept(pre, b)) =>
              MapAt(post.i_df.if_ext, b - shift_fsb) = MapAt(pre.i_df.if_ext, b)

\* A record after the range moved down and merged with its left neighbour.
C10_Witness ==
  /\ CollapseDone
  /\ Len(h.pre[ret.ip].i_df.if_ext) = 2
  /\ Len(inodes[ret.ip].i_df.if_ext) = 1
  /\ h.pre[ret.ip].i_df.if_ext[2].br_startoff * BlockSize >= ret.offset + ret.len
  /\ xfs_bmap_is_real_extent(h.pre[ret.ip].i_df.if_ext[2])
  /\ inodes[ret.ip].i_df.if_ext[1].br_blockcount = 2

(***************************************************************************)
(* SpecSwap: xfs_swap_extents of file 1 (the target) and file 2 (the       *)
(* donor), and the same call once more after it succeeded.                 *)
(***************************************************************************)
SwapSize == (MaxFsb - 1) * BlockSize
SwapCow(base) == <<Ext(0, base, 1, XFS_EXT_UNWRITTEN)>>

\* What the two files and the mount differ in: nothing, a feature of the
\* mount, staged copy-on-write blocks, or one of the things the call
\* refuses.
SwapCases ==
  {"plain", "rmapbt", "cow_target", "cow_donor", "rmapbt_cow", "mode", "rt", "quota",
   "local", "pages"}

SwapMount(c) ==
  [MkMount EXCEPT !.rmapbt = c \in {"rmapbt", "rmapbt_cow"},
                  !.reflink = c \in {"cow_target", "cow_donor", "rmapbt_cow"},
                  !.quota_on = (c = "quota")]

SwapTarget(f, c) ==
  [MkInode(f, SwapSize) EXCEPT
     !.i_df.if_owner = 1,
     !.i_df.if_format = IF c = "local" THEN XFS_DINODE_FMT_LOCAL ELSE @,
     !.reflink = c \in {"cow_target", "rmapbt_cow"},
     !.i_cowfp = IF c \in {"cow_target", "rmapbt_cow"}
                 THEN [present |-> TRUE, if_ext |-> SwapCow(2 * MaxFsb)] ELSE @,
     !.cowblocks_tag = c \in {"cow_target", "rmapbt_cow"}]

SwapDonor(f, c) ==
  [MkInode(f, SwapSize) EXCEPT
     !.i_df.if_owner = 2,
     !.i_mode = IF c = "mode" THEN "DIR" ELSE @,
     !.rt = (c = "rt"),
     !.ids = IF c = "quota" THEN 1 ELSE @,
     !.nrpages = IF c = "pages" THEN 1 ELSE @,
     !.reflink = (c = "cow_donor"),
     !.i_cowfp = IF c = "cow_donor"
                 THEN [present |-> TRUE, if_ext |-> SwapCow(2 * MaxFsb + 1)] ELSE @,
     !.cowblocks_tag = (c = "cow_donor")]

InitSwap ==
  /\ \E c \in SwapCases :
       /\ \E f \in Forks({"H", "N", "D"}, 0), g \in Forks({"H", "N"}, MaxFsb) :
            /\ (c \in {"mode", "rt", "quota", "local", "pages"}
                  => f \in Forks({"H", "D"}, 0) /\ g \in Forks({"N"}, MaxFsb))
            /\ inodes = [i \in Ino |-> IF i = 1 THEN SwapTarget(IF c = "local" THEN << >> ELSE f, c)
                                        ELSE SwapDonor(g, c)]
       /\ mp = SwapMount(c)
  /\ pc = "idle"
  /\ lv = NoLv
  /\ ret = NoRet
  /\ h = NoHist
  /\ out = NoOut

SwapCall ==
  /\ h.n = 0
  /\ \E sx_offset \in {0, 1}, sx_length \in {SwapSize, SwapSize - 1}, sx_stat \in {0, 1} :
       xfs_swap_extents(1, 2, [sx_offset |-> sx_offset, sx_length |-> sx_length,
                               sx_stat |-> sx_stat])
  /\ Enter

SwapAgain ==
  /\ h.n = 1
  /\ pc = "idle" /\ ret.op = "swap" /\ ret.error = OK
  /\ xfs_swap_extents(1, 2, [sx_offset |-> ret.offset, sx_length |-> ret.len,
                             sx_stat |-> ret.sx_stat])
  /\ Enter

NextSwap == SwapCall \/ SwapRmap \/ SwapAgain
SpecSwap == InitSwap /\ [][NextSwap]_vars

(***************************************************************************)
(* C5: after a successful xfs_swap_extents(target, donor), under either    *)
(* algorithm, every logical block of the target maps to what the donor     *)
(* mapped at that block before the call and every logical block of the     *)
(* donor maps to what the target mapped before the call, and the           *)
(* copy-on-write staging forks of the two files are exchanged.             *)
(***************************************************************************)
SwapDone == Returned("swap") /\ ret.error = OK /\ h.n = 1

C5_SwapExchanges ==
  SwapDone =>
    LET pre == h.pre IN
    /\ \A b \in AllBlocks :
         /\ MapAt(inodes[ret.ip].i_df.if_ext, b) = MapAt(pre[ret.tip].i_df.if_ext, b)
         /\ MapAt(inodes[ret.tip].i_df.if_ext, b) = MapAt(pre[ret.ip].i_df.if_ext, b)
    /\ inodes[ret.ip].i_cowfp = pre[ret.tip].i_cowfp
    /\ inodes[ret.tip].i_cowfp = pre[ret.ip].i_cowfp

(***************************************************************************)
(* C5 as the code has it.  The structural fork swap exchanges the mapping  *)
(* of every block; the reverse-map-safe remap exchanges the blocks below   *)
(* ceil(size/bs) of the target and leaves the blocks past it where they    *)
(* were.  A delayed allocation below end of file is written back before    *)
(* the exchange, so the other file receives a real block for it.  The      *)
(* donor's staged copy-on-write blocks are cancelled before the exchange:  *)
(* the target ends with the donor's fork emptied, the donor with the       *)
(* target's.                                                               *)
(***************************************************************************)
\* Block b of ip is not a delayed allocation that a flush writes back.
Stable(ip, b) ==
  ~(MapAt(ip.i_df.if_ext, b).blk = DELAYSTARTBLOCK /\ b < XFS_B_TO_FSB(ip.i_size))

C5_SwapExchanges_Amended ==
  SwapDone =>
    LET pre == h.pre
        eof == XFS_B_TO_FSB(pre[ret.ip].i_size)
    IN /\ \A b \in AllBlocks :
            IF mp.rmapbt /\ b >= eof
            THEN /\ MapAt(inodes[ret.ip].i_df.if_ext, b) = MapAt(pre[ret.ip].i_df.if_ext, b)
                 /\ MapAt(inodes[ret.tip].i_df.if_ext, b) = MapAt(pre[ret.tip].i_df.if_ext, b)
            ELSE /\ IF Stable(pre[ret.tip], b)
                    THEN MapAt(inodes[ret.ip].i_df.if_ext, b) = MapAt(pre[ret.tip].i_df.if_ext, b)
                    ELSE IsReal(MapAt(inodes[ret.ip].i_df.if_ext, b))
                 /\ IF Stable(pre[ret.ip], b)
                    THEN MapAt(inodes[ret.tip].i_df.if_ext, b) = MapAt(pre[ret.ip].i_df.if_ext, b)
                    ELSE IsReal(MapAt(inodes[ret.tip].i_df.if_ext, b))
       /\ inodes[ret.ip].i_cowfp = [pre[ret.tip].i_cowfp EXCEPT !.if_ext = << >>]
       /\ inodes[ret.tip].i_cowfp = pre[ret.ip].i_cowfp

\* The remap exchanged a real block below end of file and left a block
\* past end of file where it was.
C5_Witness ==
  /\ SwapDone /\ mp.rmapbt
  /\ \E b \in AllBlocks :
       /\ b < XFS_B_TO_FSB(h.pre[ret.ip].i_size)
       /\ IsReal(MapAt(h.pre[ret.ip].i_df.if_ext, b))
       /\ IsReal(MapAt(h.pre[ret.tip].i_df.if_ext, b))
       /\ MapAt(inodes[ret.ip].i_df.if_ext, b) = MapAt(h.pre[ret.tip].i_df.if_ext, b)
  /\ \E b \in AllBlocks :
       /\ b >= XFS_B_TO_FSB(h.pre[ret.ip].i_size)
       /\ IsReal(MapAt(h.pre[ret.ip].i_df.if_ext, b))
       /\ MapAt(h.pre[ret.tip].i_df.if_ext, b) = Hole
       /\ MapAt(inodes[ret.ip].i_df.if_ext, b) = MapAt(h.pre[ret.ip].i_df.if_ext, b)

(***************************************************************************)
(* C6: swap is its own inverse: for any two files on which                 *)
(* xfs_swap_extents succeeds, a second call on the same pair with a        *)
(* matching timestamp fingerprint also succeeds (it is not refused) and    *)
(* restores each file's extent mapping, block count, delayed-block count   *)
(* and reflink flag.                                                       *)
(***************************************************************************)
SwapTwice ==
  /\ Returned("swap") /\ h.n = 2
  /\ h.prev.op = "swap" /\ h.prev.error = OK

Refusals == {"EINVAL", "EFAULT", "EBUSY"}

Restored(i) ==
  /\ \A b \in AllBlocks :
       MapAt(inodes[i].i_df.if_ext, b) = MapAt(h.first[i].i_df.if_ext, b)
  /\ inodes[i].i_nblocks = h.first[i].i_nblocks
  /\ inodes[i].i_delayed_blks = h.first[i].i_delayed_blks
  /\ inodes[i].reflink = h.first[i].reflink

C6_SwapTwice ==
  SwapTwice =>
    /\ ret.error \notin Refusals
    /\ ret.error = OK => Restored(ret.ip) /\ Restored(ret.tip)

(***************************************************************************)
(* C6 as the code has it: when the second call succeeds too, each file's   *)
(* extent mapping, block count, delayed-block count and reflink flag are   *)
(* as before the first call, provided neither file had delayed             *)
(* allocations.  (The second call is refused when the first left the       *)
(* target with fewer records than the donor.)                              *)
(***************************************************************************)
C6_SwapTwice_Amended ==
  (/\ SwapTwice /\ ret.error = OK
   /\ h.first[ret.ip].i_delayed_blks = 0
   /\ h.first[ret.tip].i_delayed_blks = 0)
    => Restored(ret.ip) /\ Restored(ret.tip)

\* Two swaps of two files with different mappings and reflink flags.
C6_Witness ==
  /\ SwapTwice /\ ret.error = OK
  /\ h.first[ret.ip].i_delayed_blks = 0
  /\ h.first[ret.tip].i_delayed_blks = 0
  /\ h.first[ret.ip].reflink # h.first[ret.tip].reflink
  /\ h.pre[ret.ip].reflink # h.first[ret.ip].reflink
  /\ \E b \in AllBlocks :
       /\ IsReal(MapAt(h.first[ret.ip].i_df.if_ext, b))
       /\ MapAt(h.pre[ret.ip].i_df.if_ext, b) # MapAt(h.first[ret.ip].i_df.if_ext, b)

(***************************************************************************)
(* C7: if any swap precondition fails (file kind, storage class, quota     *)
(* ids, inline fork, extent-count rule, partial range, format, timestamp   *)
(* fingerprint, the last reported as -EBUSY), xfs_swap_extents returns an  *)
(* error and neither file has been mutated: data forks, copy-on-write      *)
(* staging forks, block counts, delayed-block counts and flags of both     *)
(* files are as before the call.                                           *)
(***************************************************************************)
SwapRefused == Returned("swap") /\ h.n = 1 /\ ret.error \in Refusals

SwapCore(ip) ==
  [i_df |-> ip.i_df, i_cowfp |-> ip.i_cowfp, i_nblocks |-> ip.i_nblocks,
   i_delayed_blks |-> ip.i_delayed_blks, reflink |-> ip.reflink,
   prealloc |-> ip.prealloc, append |-> ip.append]

SwapStatRule ==
  (Returned("swap") /\ h.n = 1) =>
    /\ ret.sx_stat # h.pre[ret.ip].tstamp => ret.error # OK
    /\ ret.error = "EBUSY" => ret.sx_stat # h.pre[ret.ip].tstamp

C7_SwapRefusedUntouched ==
  /\ SwapStatRule
  /\ SwapRefused => \A i \in {ret.ip, ret.tip} : SwapCore(inodes[i]) = SwapCore(h.pre[i])

(***************************************************************************)
(* C7 as the code has it: a timestamp mismatch never succeeds and -EBUSY   *)
(* means a timestamp mismatch; a call refused for the file kind or the     *)
(* storage class changes nothing; a call refused by a later check has      *)
(* flushed both files and cancelled the donor's staged copy-on-write       *)
(* blocks first, so delayed allocations below end of file have become real *)
(* blocks (counted in the block count instead of the delayed-block count)  *)
(* and the donor's staging fork may be empty; nothing else has changed.    *)
(***************************************************************************)
FlushedOnly(i) ==
  LET a == h.pre[i]
      b == inodes[i]
  IN /\ \A k \in AllBlocks :
          \/ MapAt(b.i_df.if_ext, k) = MapAt(a.i_df.if_ext, k)
          \/ ~Stable(a, k) /\ IsReal(MapAt(b.i_df.if_ext, k))
     /\ b.i_nblocks + b.i_delayed_blks = a.i_nblocks + a.i_delayed_blks
     /\ b.i_nblocks = RealBlocks(b.i_df.if_ext)
     /\ b.reflink = a.reflink /\ b.prealloc = a.prealloc /\ b.append = a.append
     /\ (\A k \in AllBlocks : Stable(a, k)) => b.i_df = a.i_df

C7_SwapRefused_Amended ==
  /\ SwapStatRule
  /\ SwapRefused =>
       /\ FlushedOnly(ret.ip) /\ FlushedOnly(ret.tip)
       /\ inodes[ret.ip].i_cowfp = h.pre[ret.ip].i_cowfp
       /\ inodes[ret.tip].i_cowfp \in
            {h.pre[ret.tip].i_cowfp, [h.pre[ret.tip].i_cowfp EXCEPT !.if_ext = << >>]}
       /\ (h.pre[ret.ip].i_mode # h.pre[ret.tip].i_mode \/ h.pre[ret.ip].rt # h.pre[ret.tip].rt)
            => inodes = h.pre

\* A timestamp mismatch on a target that had a delayed allocation to flush.
C7_Witness ==
  /\ SwapRefused /\ ret.error = "EBUSY"
  /\ \E b \in AllBlocks : ~Stable(h.pre[ret.ip], b)
  /\ inodes[ret.ip].i_delayed_blks < h.pre[ret.ip].i_delayed_blks

(***************************************************************************)
(* C8: xfs_swap_extents rejects the swap when the donor's data fork has    *)
(* fewer extents than the target's, and accepts the extent-count           *)
(* precondition whenever the donor has at least as many extents as the     *)
(* target.                                                                 *)
(***************************************************************************)
SwapReturned == Returned("swap") /\ h.n = 1

\* Nothing but the extent-count rule can refuse with -EINVAL: the files are
\* of one kind and class, not inline, with no pages left and no delayed
\* allocations, and the filesystem has the reverse-mapping index.
OnlyCountRule ==
  /\ mp.rmapbt /\ ~mp.quota_on
  /\ \A i \in {ret.ip, ret.tip} :
       /\ h.pre[i].i_df.if_format # XFS_DINODE_FMT_LOCAL
       /\ h.pre[i].nrpages = 0
       /\ h.pre[i].i_delayed_blks = 0
  /\ h.pre[ret.ip].i_mode = h.pre[ret.tip].i_mode
  /\ h.pre[ret.ip].rt = h.pre[ret.tip].rt

TargetNextents == if_nextents(h.pre[ret.ip].i_df.if_ext)
DonorNextents == if_nextents(h.pre[ret.tip].i_df.if_ext)

C8_SwapCountRule ==
  SwapReturned =>
    /\ (h.pre[ret.ip].i_delayed_blks = 0 /\ DonorNextents < TargetNextents) => ret.error # OK
    /\ (OnlyCountRule /\ DonorNextents >= TargetNextents) => ret.error # "EINVAL"

(***************************************************************************)
(* C8 as the code has it: the swap is rejected when the target's data fork *)
(* has fewer extents than the donor's, and the extent-count precondition   *)
(* is accepted whenever the target has at least as many extents as the     *)
(* donor.                                                                  *)
(***************************************************************************)
C8_SwapCountRule_Amended ==
  SwapReturned =>
    /\ (/\ h.pre[ret.ip].i_delayed_blks = 0
        /\ TargetNextents < DonorNextents) => ret.error \notin {OK, "EBUSY"}
    /\ (OnlyCountRule /\ TargetNextents >= DonorNextents) => ret.error # "EINVAL"

\* The rule refuses a target with fewer records than the donor.
C8_Witness ==
  /\ SwapReturned /\ OnlyCountRule
  /\ TargetNextents < DonorNextents
  /\ ret.offset = 0 /\ ret.len = h.pre[ret.ip].i_disk_size
  /\ ret.error = "EINVAL"

(***************************************************************************)
(* Spec: the six calls that change extent maps, in any order on file 1     *)
(* (xfs_swap_extents with file 2 as the donor), every step of every call   *)
(* and every failure the steps can end in, up to MaxCalls calls.           *)
(***************************************************************************)
MaxCalls == 2

\* The (offset, len) pairs of the calls: whole blocks, and a range that
\* starts and ends inside blocks.
CallArgs == {<<BlockSize, BlockSize>>, <<1, BlockSize + 1>>}

Init ==
  /\ \E f \in Forks({"H", "N", "D"}, 0), rmapbt \in BOOLEAN :
       /\ inodes = [i \in Ino |->
                      IF i = 1 THEN SwapTarget(f, "plain")
                      ELSE SwapDonor(Build([b \in Blocks |-> "N"], PhysReverse(MaxFsb), 0, << >>),
                                     "plain")]
       /\ mp = [MkMount EXCEPT !.rmapbt = rmapbt]
  /\ pc = "idle"
  /\ lv = NoLv
  /\ ret = NoRet
  /\ h = NoHist
  /\ out = NoOut

\* A call begins: count it.
Call == h.n < MaxCalls /\ h' = [h EXCEPT !.n = @ + 1]

Alloc == Call /\ \E a \in CallArgs : xfs_alloc_file_space(1, a[1], a[2])
Free == Call /\ \E a \in CallArgs : xfs_free_file_space(1, a[1], a[2])
Eofblocks == Call /\ FreeEofblocks(1)
Collapse == Call /\ \E a \in CallArgs : xfs_collapse_file_space(1, a[1], a[2])
Insert == Call /\ \E a \in CallArgs : xfs_insert_file_space(1, a[1], a[2])
Swap ==
  /\ Call
  /\ xfs_swap_extents(1, 2, [sx_offset |-> 0, sx_length |-> inodes[1].i_size,
                             sx_stat |-> inodes[1].tstamp])

Next ==
  \/ Alloc
  \/ AllocIter
  \/ Free
  \/ FreeUnmap
  \/ FreeZero
  \/ Eofblocks
  \/ Collapse
  \/ CollapsePrepare
  \/ CollapseShift
  \/ Insert
  \/ InsertPrepare
  \/ InsertShift
  \/ Swap
  \/ SwapRmap
Spec == Init /\ [][Next]_vars

(***************************************************************************)
(* C1: after any sequence of xfs_alloc_file_space, xfs_free_file_space,    *)
(* xfs_free_eofblocks, xfs_collapse_file_space, xfs_insert_file_space and  *)
(* xfs_swap_extents calls, the calls that fail part-way and the points     *)
(* between transaction rolls included, the extents of every fork are       *)
(* pairwise non-overlapping and sorted by logical start offset.            *)
(***************************************************************************)
C1_ExtentsSorted ==
  \A i \in Ino :
    /\ SortedExtents(inodes[i].i_df.if_ext)
    /\ SortedExtents(inodes[i].i_cowfp.if_ext)
    /\ SortedExtents(inodes[i].i_af.if_ext)

\* A second call failed after it had moved records: several records stand.
C1_Witness ==
  /\ pc = "idle" /\ h.n = 2
  /\ ret.op \in {"collapse", "insert"} /\ ret.error = "EIO"
  /\ mp.shutdown
  /\ Len(inodes[1].i_df.if_ext) >= 3

(***************************************************************************)
(* SpecEof: end-of-file reclamation of one file, from every generated      *)
(* fork: the check on its own, the call on its own, and a second attempt   *)
(* (the check, then the call) after the call succeeded.                    *)
(***************************************************************************)
EofCases ==
  {"plain", "prealloc", "append", "dir", "pages", "cow", "rt", "unloaded"}
EofSizes == {0, 1, BlockSize + 1, MaxFsb * BlockSize, s_maxbytes}

EofInode(f, size, c) ==
  [MkInode(f, size) EXCEPT
     !.prealloc = (c = "prealloc"),
     !.append = (c = "append"),
     !.i_mode = IF c = "dir" THEN "DIR" ELSE @,
     !.nrpages = IF c = "pages" THEN 1 ELSE @,
     !.rt = (c = "rt"),
     !.reflink = (c = "cow"),
     !.i_cowfp = IF c = "cow"
                 THEN [present |-> TRUE,
                       if_ext |-> <<Ext(MaxFsb - 1, 2 * MaxFsb, 1, XFS_EXT_UNWRITTEN)>>]
                 ELSE @,
     !.cowblocks_tag = (c = "cow"),
     !.i_df.if_format = IF c = "unloaded" THEN XFS_DINODE_FMT_BTREE ELSE @,
     !.i_df.if_broot = IF c = "unloaded" THEN 1 ELSE @,
     !.i_df.if_loaded = (c # "unloaded")]

EofMount(c) ==
  [MkMount EXCEPT !.reflink = (c = "cow"),
                  !.sb_rextsize = IF c = "rt" THEN 2 ELSE 1]

InitEof ==
  /\ \E c \in EofCases, size \in EofSizes, f \in Forks(Kinds, 0) :
       /\ c = "unloaded" => f \in Forks({"H", "D"}, 0)
       /\ inodes = [i \in Ino |-> IF i = 1 THEN EofInode(f, size, c) ELSE MkInode(<< >>, 0)]
       /\ mp = EofMount(c)
  /\ pc = "idle"
  /\ lv = NoLv
  /\ ret = NoRet
  /\ h = NoHist
  /\ out = NoOut

\* The check on its own.
EofCheck ==
  /\ h.n = 0
  /\ CanFreeEofblocks(1)
  /\ Enter

\* The call on its own, whatever the check would say; the model keeps no
\* on-disk list to read in, so the extent list is in core.
EofCall ==
  /\ h.n = 0
  /\ ~xfs_need_iread_extents(inodes[1].i_df)
  /\ free_eofblocks_call(1)
  /\ Enter

\* The second attempt after a call that succeeded.
EofAgain ==
  /\ h.n = 1
  /\ ret.op = "free_eofblocks" /\ ret.error = OK
  /\ FreeEofblocks(1)
  /\ Enter

NextEof == EofCheck \/ EofCall \/ EofAgain
SpecEof == InitEof /\ [][NextEof]_vars

(***************************************************************************)
(* C11: idempotence of post-EOF reclamation: if xfs_free_eofblocks         *)
(* succeeds on a file and no write or allocation intervenes, a second      *)
(* attempt (xfs_can_free_eofblocks, then xfs_free_eofblocks if it said     *)
(* yes) leaves the extent map, the block count and the delayed-block count *)
(* unchanged, whatever the second call returns.                            *)
(***************************************************************************)
EofSecond == Returned("free_eofblocks") /\ h.n = 2

BmapCases == {"plain", "prealloc", "shared", "cow", "attr"}
BmapSizes == {BlockSize + 1, MaxFsb * BlockSize, (MaxFsb + 1) * BlockSize}
BmapOffsets == {0, 1, BlockSize}
BmapLengths == {-1, 0, BlockSize, MaxFsb * BlockSize, (MaxFsb + 1) * BlockSize}
BmapCounts == {2, 3, 2 * MaxFsb + 4}
BmapFlags ==
  {{}, {"BMV_IF_DELALLOC"}, {"BMV_IF_NO_HOLES"}, {"BMV_IF_DELALLOC", "BMV_IF_NO_HOLES"},
   {"BMV_IF_PREALLOC"}}

BmapInode(f, size, c) ==
  IF c = "cow"
  THEN [MkInode(<< >>, size) EXCEPT
          !.reflink = TRUE,
          !.i_cowfp = [present |-> TRUE, if_ext |-> f],
          !.i_delayed_blks = DelayedBlocks(f),
          !.cowblocks_tag = (f # << >>)]
  ELSE IF c = "attr"
  THEN [MkInode(<< >>, size) EXCEPT
          !.i_af = [present |-> TRUE, if_format |-> XFS_DINODE_FMT_EXTENTS, if_ext |-> f,
                    btblocks |-> 0]]
  ELSE [MkInode(f, size) EXCEPT !.prealloc = (c = "prealloc"),
                                !.reflink = (c = "shared")]

BmapMount(c) ==
  [MkMount EXCEPT !.debug = (c = "cow"),
                  !.reflink = (c \in {"cow", "shared"}),
                  !.shared = IF c = "shared" THEN {1} ELSE {}]

\* The fork the query of case c reads.
BmapForkFlag(c) ==
  IF c = "cow" THEN {"BMV_IF_COWFORK"}
  ELSE IF c = "attr" THEN {"BMV_IF_ATTRFORK"}
  ELSE {}

InitBmap ==
  /\ \E c \in BmapCases, size \in BmapSizes, f \in Forks(Kinds, 0) :
       /\ c = "attr" => f \in Forks({"H", "N"}, 0)
       /\ c = "shared" => f \in Forks({"H", "N"}, 0)
       /\ inodes = [i \in Ino |-> IF i = 1 THEN BmapInode(f, size, c) ELSE MkInode(<< >>, 0)]
       /\ mp = BmapMount(c)
  /\ pc = "idle"
  /\ lv = NoLv
  /\ ret = NoRet
  /\ h = NoHist
  /\ out = NoOut

BmapCall ==
  /\ h.n = 0
  /\ \E bmv_offset \in BmapOffsets, bmv_length \in BmapLengths, bmv_count \in BmapCounts,
        iflags \in BmapFlags :
       xfs_getbmap(1, [bmv_offset |-> bmv_offset, bmv_length |-> bmv_length,
                       bmv_count |-> bmv_count, bmv_entries |-> 0,
                       bmv_iflags |-> iflags \cup BmapForkFlag(
                                        IF mp.debug THEN "cow"
                                        ELSE IF inodes[1].i_af.present THEN "attr"
                                        ELSE "plain")])
  /\ Enter

NextBmap == BmapCall
SpecBmap == InitBmap /\ [][NextBmap]_vars

(***************************************************************************)
(* C12: for a data fork whose extents are separated by gaps and whose last *)
(* extent ends exactly at the end of the requested range, xfs_getbmap      *)
(* (holes reported, output capacity sufficient) returns, in increasing     *)
(* logical order, one record per extent and one hole record per gap, and   *)
(* the record of the final extent carries BMV_OF_LAST.                     *)
(***************************************************************************)
BmapDone == Returned("getbmap") /\ ret.error = OK /\ h.n = 1

\* Block, offset and length of the records o, without the flags.
BmapPlaces(o) ==
  [k \in 1..Len(o) |-> [bmv_block |-> o[k].bmv_block, bmv_offset |-> o[k].bmv_offset,
                         bmv_length |-> o[k].bmv_length]]

\* One record per extent of ext from record i on, and one hole record per
\* gap, the scan standing at block bno.
RECURSIVE BmapExpected(_, _, _)
BmapExpected(ext, i, bno) ==
  IF i > Len(ext) THEN << >>
  ELSE (IF ext[i].br_startoff > bno
        THEN <<[bmv_block |-> -1, bmv_offset |-> XFS_FSB_TO_BB(bno),
                bmv_length |-> XFS_FSB_TO_BB(ext[i].br_startoff - bno)]>>
        ELSE << >>)
       \o <<[bmv_block |-> XFS_FSB_TO_BB(ext[i].br_startblock),
             bmv_offset |-> XFS_FSB_TO_BB(ext[i].br_startoff),
             bmv_length |-> XFS_FSB_TO_BB(ext[i].br_blockcount)]>>
       \o BmapExpected(ext, i + 1, ExtEnd(ext[i]))

\* A query of the whole of a data fork of real extents with a gap, from
\* offset 0 to the end of the last extent, holes reported, room for all.
BmapGapsToEnd ==
  LET ext == h.pre[1].i_df.if_ext IN
  /\ BmapDone
  /\ ~mp.debug /\ ~inodes[1].i_af.present /\ ~inodes[1].reflink
  /\ Len(ext) >= 2
  /\ \A i \in 1..Len(ext) : xfs_bmap_is_real_extent(ext[i])
  /\ \E i \in 1..(Len(ext) - 1) : ExtEnd(ext[i]) < ext[i + 1].br_startoff
  /\ out.req.bmv_offset = 0
  /\ out.req.bmv_length = XFS_FSB_TO_BB(ExtEnd(ext[Len(ext)]))
  /\ out.req.bmv_count = 2 * MaxFsb + 4
  /\ "BMV_IF_NO_HOLES" \notin out.req.bmv_iflags

\* The places of the records alone (this part holds).
BmapGapsRecords ==
  BmapGapsToEnd => BmapPlaces(out.out) = BmapExpected(h.pre[1].i_df.if_ext, 1, 0)

C12_BmapGapsLast ==
  BmapGapsToEnd =>
    /\ BmapPlaces(out.out) = BmapExpected(h.pre[1].i_df.if_ext, 1, 0)
    /\ "BMV_OF_LAST" \in out.out[Len(out.out)].bmv_oflags

(***************************************************************************)
(* C13: when the scan of xfs_getbmap passes the last extent of a data or   *)
(* copy-on-write fork before reaching end of file and output capacity      *)
(* remains, a trailing hole record up to end of file is emitted and        *)
(* BMV_OF_LAST is carried by the last record of the output; at most one    *)
(* record of any output carries the flag.                                  *)
(***************************************************************************)
\* The fork the query read, as the query left it.
BmapFork ==
  IF "BMV_IF_COWFORK" \in out.req.bmv_iflags THEN inodes[1].i_cowfp.if_ext
  ELSE IF "BMV_IF_ATTRFORK" \in out.req.bmv_iflags THEN inodes[1].i_af.if_ext
  ELSE inodes[1].i_df.if_ext

BmapLastEnd == ExtEnd(BmapFork[Len(BmapFork)])
BmapEof == XFS_B_TO_FSB(inodes[1].i_size)
BmapFirstBno == XFS_BB_TO_FSBT(out.req.bmv_offset)
\* bmv_length as xfs_getbmap has it after the -1 case (lines 505-508).
BmapLength ==
  IF out.req.bmv_length # -1 THEN out.req.bmv_length
  ELSE LET max_len == IF "BMV_IF_COWFORK" \in out.req.bmv_iflags
                         \/ inodes[1].prealloc \/ inodes[1].append
                      THEN s_maxbytes ELSE inodes[1].i_size
       IN Max(0, XFS_FSB_TO_BB(XFS_B_TO_FSB(max_len)) - out.req.bmv_offset)

\* The request starts in or before the last extent, reaches past its end,
\* the file ends later still, holes are reported and there is room.
BmapPastLast ==
  /\ BmapDone
  /\ "BMV_IF_ATTRFORK" \notin out.req.bmv_iflags
  /\ "BMV_IF_NO_HOLES" \notin out.req.bmv_iflags
  /\ out.req.bmv_count = 2 * MaxFsb + 4
  /\ BmapFork # << >>
  /\ BmapFirstBno < BmapLastEnd
  /\ BmapFirstBno + XFS_BB_TO_FSB(BmapLength) >= BmapLastEnd
  /\ out.req.bmv_offset + BmapLength > XFS_FSB_TO_BB(BmapLastEnd)
  /\ BmapLastEnd < BmapEof

BmapTrailingHole ==
  /\ out.out # << >>
  /\ out.out[Len(out.out)].bmv_block = -1
  /\ out.out[Len(out.out)].bmv_offset = XFS_FSB_TO_BB(BmapLastEnd)
  /\ out.out[Len(out.out)].bmv_length = XFS_FSB_TO_BB(BmapEof - BmapLastEnd)

BmapLastFlags == {k \in 1..Len(out.out) : "BMV_OF_LAST" \in out.out[k].bmv_oflags}

C13_BmapTrailingLast ==
  /\ BmapPastLast => BmapTrailingHole /\ Len(out.out) \in BmapLastFlags
  /\ BmapDone => Cardinality(BmapLastFlags) <= 1

(***************************************************************************)
(* C13 as the code has it: the trailing hole record up to end of file is   *)
(* the last record of the output, and BMV_OF_LAST is carried by the record *)
(* written just before it (when there is one), not by the hole; at most    *)
(* one record of any output carries the flag.                              *)
(***************************************************************************)
C13_BmapTrailingLast_Amended ==
  /\ BmapPastLast =>
       /\ BmapTrailingHole
       /\ BmapLastFlags = IF Len(out.out) >= 2 THEN {Len(out.out) - 1} ELSE {}
  /\ BmapDone => Cardinality(BmapLastFlags) <= 1

\* An extent record, flagged, just before the trailing hole.
C13_Witness ==
  /\ BmapPastLast /\ BmapTrailingHole
  /\ Len(out.out) >= 2
  /\ out.out[Len(out.out) - 1].bmv_block >= 0
  /\ "BMV_OF_LAST" \in out.out[Len(out.out) - 1].bmv_oflags

(***************************************************************************)
(* C14: for every request accepted by xfs_getbmap, the number of records   *)
(* written (bmv_entries) never exceeds the output capacity bmv_count - 1,  *)
(* on every path including the whole-file-hole path taken when no extent   *)
(* is found, and the records are written in strictly increasing,           *)
(* non-overlapping logical order.                                          *)
(***************************************************************************)
C14_BmapCapacityOrder ==
  BmapDone =>
    /\ out.bmv.bmv_entries = Len(out.out)
    /\ out.bmv.bmv_entries <= out.req.bmv_count - 1
    /\ \A k \in 1..(Len(out.out) - 1) :
         /\ out.out[k].bmv_offset < out.out[k + 1].bmv_offset
         /\ out.out[k].bmv_offset + out.out[k].bmv_length <= out.out[k + 1].bmv_offset

\* What does hold of every request: the capacity is respected.
BmapCapacity ==
  BmapDone =>
    /\ out.bmv.bmv_entries = Len(out.out)
    /\ out.bmv.bmv_entries <= out.req.bmv_count - 1

\* What does hold of the order: it is strict when the request starts on a
\* block boundary.
BmapOrderAligned ==
  BmapDone /\ out.req.bmv_offset % BlockSize = 0 =>
    \A k \in 1..(Len(out.out) - 1) :
      /\ out.out[k].bmv_length > 0
      /\ out.out[k].bmv_offset + out.out[k].bmv_length <= out.out[k + 1].bmv_offset

\* The whole-file-hole path, with room for one record.
BmapWholeFileHole ==
  /\ BmapDone
  /\ out.req.bmv_count = 2 /\ out.bmv.bmv_entries = 1
  /\ "BMV_IF_DELALLOC" \in out.req.bmv_iflags
  /\ xfs_iext_lookup_extent(BmapFork, BmapFirstBno) = 0

(***************************************************************************)
(* C15: when the caller of xfs_getbmap does not request delayed-extent     *)
(* visibility (BMV_IF_DELALLOC clear), no output record has the delayed    *)
(* flag or the delayed sentinel block -2, and the range of each delayed    *)
(* extent is reported as a hole (holes enabled) so that the output records *)
(* still tile the scanned range without gaps; when visibility is           *)
(* requested, each delayed extent yields a record with block -2 and the    *)
(* delayed flag.                                                           *)
(***************************************************************************)
BmapWindowEnd == BmapFirstBno + XFS_BB_TO_FSB(BmapLength)

\* The delayed extents of the fork read, cut to the scan window.
BmapDelayed ==
  {e \in {xfs_trim_extent(BmapFork[i], BmapFirstBno, XFS_BB_TO_FSB(BmapLength)) :
            i \in {j \in 1..Len(BmapFork) : BmapFork[j].br_startblock = DELAYSTARTBLOCK}} :
     e.br_blockcount > 0}

BmapHidden == BmapDone /\ "BMV_IF_DELALLOC" \notin out.req.bmv_iflags
BmapVisible ==
  /\ BmapDone /\ "BMV_IF_DELALLOC" \in out.req.bmv_iflags
  /\ out.req.bmv_count = 2 * MaxFsb + 4

BmapNoDelayedRecord ==
  \A k \in 1..Len(out.out) :
    out.out[k].bmv_block # -2 /\ "BMV_OF_DELALLOC" \notin out.out[k].bmv_oflags

\* A record of e, as a hole or as a delayed extent.
BmapHoleRecord(e) ==
  \E k \in 1..Len(out.out) :
    /\ out.out[k].bmv_block = -1
    /\ out.out[k].bmv_offset <= XFS_FSB_TO_BB(e.br_startoff)
    /\ out.out[k].bmv_offset + out.out[k].bmv_length >= XFS_FSB_TO_BB(ExtEnd(e))
BmapDelayedRecord(e) ==
  \E k \in 1..Len(out.out) :
    /\ out.out[k].bmv_block = -2
    /\ "BMV_OF_DELALLOC" \in out.out[k].bmv_oflags
    /\ out.out[k].bmv_offset = XFS_FSB_TO_BB(e.br_startoff)
    /\ out.out[k].bmv_length = XFS_FSB_TO_BB(e.br_blockcount)
\* No record, of either kind, touches e.
BmapNoRecord(e) ==
  \A k \in 1..Len(out.out) :
    \/ out.out[k].bmv_offset + out.out[k].bmv_length <= XFS_FSB_TO_BB(e.br_startoff)
    \/ out.out[k].bmv_offset >= XFS_FSB_TO_BB(ExtEnd(e))

BmapTiles ==
  \A k \in 1..(Len(out.out) - 1) :
    out.out[k].bmv_offset + out.out[k].bmv_length = out.out[k + 1].bmv_offset

C15_BmapDelayedAsHoles ==
  /\ BmapHidden => BmapNoDelayedRecord
  /\ BmapHidden /\ "BMV_IF_NO_HOLES" \notin out.req.bmv_iflags
       /\ out.req.bmv_count = 2 * MaxFsb + 4 =>
       /\ \A e \in BmapDelayed : BmapHoleRecord(e)
       /\ BmapTiles
  /\ BmapVisible => \A e \in BmapDelayed : BmapDelayedRecord(e)

(***************************************************************************)
(* C15 as the code has it: with BMV_IF_DELALLOC clear no output record has *)
(* the delayed flag or block -2, and the part of a delayed extent inside   *)
(* the scan window gets no record at all, neither an extent nor a hole, so *)
(* the output has a gap there; with BMV_IF_DELALLOC set (and room in the   *)
(* output) each such part yields a record with block -2 and the flag.      *)
(***************************************************************************)
C15_BmapDelayedAsHoles_Amended ==
  /\ BmapHidden => BmapNoDelayedRecord
  /\ BmapHidden => \A e \in BmapDelayed : BmapNoRecord(e)
  /\ BmapVisible => \A e \in BmapDelayed : BmapDelayedRecord(e)

\* A delayed extent was skipped between two records: a gap in the output.
C15_Witness ==
  /\ BmapHidden
  /\ \E e \in BmapDelayed : \E k \in 1..(Len(out.out) - 1) :
       /\ out.out[k].bmv_offset + out.out[k].bmv_length = XFS_FSB_TO_BB(e.br_startoff)
       /\ out.out[k + 1].bmv_offset = XFS_FSB_TO_BB(ExtEnd(e))

\* A delayed extent was shown.
BmapDelayedShown == BmapVisible /\ \E e \in BmapDelayed : BmapDelayedRecord(e)

(***************************************************************************)
(* C16: xfs_can_free_eofblocks returns true only if all of these hold: the *)
(* file is regular; it is not simultaneously zero-sized, without cached    *)
(* pages and without delayed blocks; its extent list is already loaded; if *)
(* it is flagged preallocated or append-only it has a nonzero              *)
(* delayed-block count; the rounded-up end-of-file block is strictly less  *)
(* than the maximum-offset block; and the mapping just after end of file   *)
(* is a non-hole or the delayed-block count is nonzero.  The check itself  *)
(* changes no file state and never loads the extent list.                  *)
(***************************************************************************)
EofChecked == Returned("can_free_eofblocks") /\ h.n = 1

\* The end-of-file block, rounded up to a block.
EofBlock(ip) == (ip.i_size + BlockSize - 1) \div BlockSize
\* The same, rounded up on a realtime file to a realtime extent.
EofEndFsb(ip) ==
  IF ip.rt /\ mp.sb_rextsize > 1
  THEN ((EofBlock(ip) + mp.sb_rextsize - 1) \div mp.sb_rextsize) * mp.sb_rextsize
  ELSE EofBlock(ip)
EofLastFsb == (s_maxbytes + BlockSize - 1) \div BlockSize

\* The conditions of the claim on ip, the mapping looked at being that of
\* block bno.
EofConditions(ip, bno) ==
  /\ ip.i_mode = "REG"
  /\ ~(ip.i_size = 0 /\ ip.nrpages = 0 /\ ip.i_delayed_blks = 0)
  /\ ip.i_df.if_loaded
  /\ (ip.prealloc \/ ip.append) => ip.i_delayed_blks # 0
  /\ bno < EofLastFsb
  /\ \/ MapAt(ip.i_df.if_ext, bno).blk # HOLESTARTBLOCK
     \/ ip.i_delayed_blks # 0

EofYesAppend ==
  /\ EofChecked /\ ret.can
  /\ inodes[1].append /\ inodes[1].i_size > 0
  /\ MapAt(inodes[1].i_df.if_ext, EofEndFsb(inodes[1])).blk = DELAYSTARTBLOCK

\* The check said no, for each of its reasons.
EofCheckedNo(c) == EofChecked /\ ~ret.can /\ c
EofNoDir == EofCheckedNo(inodes[1].i_mode # "REG")
EofNoUnloaded == EofCheckedNo(~inodes[1].i_df.if_loaded /\ inodes[1].i_delayed_blks # 0)
EofNoMaxbytes == EofCheckedNo(inodes[1].i_size = s_maxbytes /\ inodes[1].i_delayed_blks # 0)

(***************************************************************************)
(* C17: xfs_free_eofblocks on a file flagged preallocated or append-only   *)
(* removes only delayed extents at or beyond the block-rounded-up end of   *)
(* file and leaves every real extent (including real extents beyond end of *)
(* file) and every mapping below end of file unchanged; on any other file  *)
(* it removes all mappings beyond end of file (when it succeeds); in       *)
(* neither case does it change the in-core or on-disk recorded file size.  *)
(***************************************************************************)
EofCalled == Returned("free_eofblocks") /\ h.n = 1

EofFlagged(ip) == ip.prealloc \/ ip.append

EofTruncated ==
  /\ EofCalled /\ ~EofFlagged(h.pre[1]) /\ ret.error = OK
  /\ h.pre[1].i_size > 0
  /\ \E b \in AllBlocks :
       b >= EofBlock(h.pre[1]) /\ IsReal(MapAt(h.pre[1].i_df.if_ext, b))
  /\ \E b \in AllBlocks :
       b >= EofBlock(h.pre[1]) /\ MapAt(h.pre[1].i_df.if_ext, b).blk = DELAYSTARTBLOCK
  /\ \E b \in AllBlocks :
       b < EofBlock(h.pre[1]) /\ MapAt(inodes[1].i_df.if_ext, b) # Hole

(***************************************************************************)
(* C18: if an iteration of xfs_alloc_file_space fails with a hard error    *)
(* (reservation failure, extent-count overflow, allocator error other than *)
(* ENOSR, or commit failure), the call returns that error, only the        *)
(* current transaction is cancelled, and all extents mapped and the        *)
(* preallocation flag set by earlier committed iterations remain in        *)
(* effect; the call is not atomic over the whole range.                    *)
(***************************************************************************)
\* The iteration of this step ends the call with a hard error.
AllocHardError ==
  /\ pc = "alloc" /\ pc' = "idle"
  /\ ret'.op = "alloc" /\ ret'.error # OK

\* What stood before the step stands after it: real mappings and the flag.
AllocKeeps ==
  /\ \A b \in AllBlocks :
       IsReal(MapAt(inodes[lv.ip].i_df.if_ext, b)) =>
         MapAt(inodes'[lv.ip].i_df.if_ext, b) = MapAt(inodes[lv.ip].i_df.if_ext, b)
  /\ inodes[lv.ip].prealloc => inodes'[lv.ip].prealloc

C18_AllocNotAtomic ==
  [][/\ pc = "alloc" => AllocKeeps
     /\ AllocHardError =>
          /\ ret'.error \in {"ENOSPC", "EFBIG", "EIO"}
          /\ ~mp'.shutdown => inodes' = inodes]_vars

\* A call failed without a shutdown after an earlier iteration had
\* committed: part of the range is mapped and the flag is set.
C18_Witness ==
  /\ Returned("alloc") /\ ret.error \in {"ENOSPC", "EFBIG", "EIO"} /\ h.n = 1
  /\ ~mp.shutdown
  /\ inodes[1].prealloc /\ ~h.pre[1].prealloc
  /\ \E b \in (ret.offset \div BlockSize)..((ret.offset + ret.len - 1) \div BlockSize) :
       /\ IsReal(MapAt(inodes[1].i_df.if_ext, b))
       /\ ~IsReal(MapAt(h.pre[1].i_df.if_ext, b))
  /\ \E b \in (ret.offset \div BlockSize)..((ret.offset + ret.len - 1) \div BlockSize) :
       ~IsReal(MapAt(inodes[1].i_df.if_ext, b))

(***************************************************************************)
(* SpecDown: one call of each entry point on a filesystem that is shut     *)
(* down, on every generated fork.  After a shutdown no call gets as far as *)
(* the loops of xfs_alloc_file_space, of the shifts and of the swap, so    *)
(* their steps are not part of this specification (C19 checks that).       *)
(***************************************************************************)
DownCases == {"plain", "prealloc", "append", "cow", "pages"}
DownSizes == {1, BlockSize + 1, MaxFsb * BlockSize}
\* (offset, len): whole blocks, inside blocks, nothing, a byte at MaxFsb blocks.
DownArgs ==
  {<<BlockSize, BlockSize>>, <<1, BlockSize + 1>>, <<0, 0>>, <<MaxFsb * BlockSize, 1>>}
DownFlags == {{}, {"BMV_IF_DELALLOC"}}

InitDown ==
  /\ \E c \in DownCases, size \in DownSizes, f \in Forks(Kinds, 0) :
       inodes = [i \in Ino |->
                  IF i = 1 THEN [EofInode(f, size, c) EXCEPT !.i_df.if_owner = 1]
                  ELSE SwapDonor(Build([b \in Blocks |-> "N"], PhysReverse(MaxFsb), 0, << >>),
                                 "plain")]
  /\ mp = [MkMount EXCEPT !.shutdown = TRUE]
  /\ pc = "idle"
  /\ lv = NoLv
  /\ ret = NoRet
  /\ h = NoHist
  /\ out = NoOut

DownCall == h.n = 0 /\ Enter

DownAlloc == DownCall /\ \E a \in DownArgs : xfs_alloc_file_space(1, a[1], a[2])
DownFree == DownCall /\ \E a \in DownArgs : xfs_free_file_space(1, a[1], a[2])
DownEofblocks == DownCall /\ free_eofblocks_call(1)
DownCollapse == DownCall /\ \E a \in DownArgs : xfs_collapse_file_space(1, a[1], a[2])
DownInsert == DownCall /\ \E a \in DownArgs : xfs_insert_file_space(1, a[1], a[2])
DownSwap ==
  /\ DownCall
  /\ xfs_swap_extents(1, 2, [sx_offset |-> 0, sx_length |-> inodes[1].i_size,
                             sx_stat |-> inodes[1].tstamp])
DownBmap ==
  /\ DownCall
  /\ \E iflags \in DownFlags :
       xfs_getbmap(1, [bmv_offset |-> 0, bmv_length |-> -1, bmv_count |-> 2 * MaxFsb + 4,
                       bmv_entries |-> 0, bmv_iflags |-> iflags])

NextDown ==
  \/ DownAlloc
  \/ DownFree
  \/ FreeUnmap
  \/ FreeZero
  \/ DownEofblocks
  \/ DownCollapse
  \/ CollapsePrepare
  \/ DownInsert
  \/ DownSwap
  \/ DownBmap
SpecDown == InitDown /\ [][NextDown]_vars

(***************************************************************************)
(* C19: once the filesystem has been marked shut down, every subsequent    *)
(* call of every entry point (xfs_getbmap, xfs_alloc_file_space,           *)
(* xfs_free_file_space, xfs_free_eofblocks, xfs_collapse_file_space,       *)
(* xfs_insert_file_space, xfs_swap_extents) returns an error without       *)
(* mutating any file and without retrying.                                 *)
(***************************************************************************)
\* Two inodes that differ in nothing but the count of cached pages.
DownSame(a, b) == [a EXCEPT !.nrpages = 0] = [b EXCEPT !.nrpages = 0]

\* No step of a call repeats.
DownNoRetry == pc # "idle" => pc' # pc

DownOp == IF pc' = "idle" THEN ret'.op ELSE lv'.op

\* xfs_free_file_space has nothing to do for the call that returns.
DownFreeNothing ==
  \/ ret'.len <= 0
  \/ /\ free_endoffset_fsb(inodes[1], mp, ret'.offset, ret'.len)
          <= free_startoffset_fsb(inodes[1], mp, ret'.offset)
     /\ ret'.offset >= inodes[1].i_size

\* xfs_getbmap of the step has dirty data to write back first.
DownBmapDirty ==
  /\ "BMV_IF_DELALLOC" \notin out'.req.bmv_iflags
  /\ (inodes[1].i_delayed_blks # 0 \/ inodes[1].i_size > inodes[1].i_disk_size)
  /\ \E b \in AllBlocks :
       /\ b < EofBlock(inodes[1])
       /\ MapAt(inodes[1].i_df.if_ext, b).blk = DELAYSTARTBLOCK

\* xfs_free_eofblocks on a flagged file: delayed blocks from the end-of-file
\* block on go, everything else stays.
DownPunched ==
  /\ \A b \in AllBlocks :
       MapAt(inodes'[1].i_df.if_ext, b) =
         IF /\ MapAt(inodes[1].i_df.if_ext, b).blk = DELAYSTARTBLOCK
            /\ b >= EofBlock(inodes[1])
         THEN Hole
         ELSE MapAt(inodes[1].i_df.if_ext, b)
  /\ inodes'[1].i_size = inodes[1].i_size
  /\ inodes'[1].i_nblocks = inodes[1].i_nblocks
  /\ inodes'[2] = inodes[2]

DownBmapOk ==
  mp.shutdown /\ Returned("getbmap") /\ ret.error = OK /\ Len(out.out) >= 2
DownFreeOk ==
  mp.shutdown /\ Returned("free") /\ ret.error = OK /\ ret.len > 0
DownEofPunched ==
  /\ mp.shutdown /\ Returned("free_eofblocks") /\ ret.error = OK
  /\ inodes[1].i_df.if_ext # h.pre[1].i_df.if_ext

(***************************************************************************)
(* Lock acquisition of the handlers, run concurrently.                     *)
(*                                                                         *)
(* Every inode carries three reader/writer locks: i_rwsem (XFS_IOLOCK),    *)
(* i_mapping->invalidate_lock (XFS_MMAPLOCK) and the XFS i_lock            *)
(* (XFS_ILOCK).  In this specification inodes[i] holds the three locks and *)
(* the address of the in-core inode, pc[p] is the position of process p,   *)
(* and lv[p] the list of locks its handler takes and how many it holds.    *)
(* A handler is split at the points where it can block; the unlock calls   *)
(* at its end never block and are one step.                                *)
(***************************************************************************)
LockProcs == {"swap_a", "swap_b", "bmap", "space"}

LockSwaps == {"swap_a", "swap_b"}

NoLock == [w |-> "none", r |-> {}]

NoPlan == [op |-> "none", plan |-> << >>, k |-> 0]

LockReq(i, field, mode) == [ino |-> i, field |-> field, mode |-> mode]

\* fs/inode.c: the inode at the lower address is locked first.
lock_two_nondirectories(a, b, tab) ==
  IF tab[a].addr > tab[b].addr THEN <<b, a>> ELSE <<a, b>>

\* mm/filemap.c: the mapping at the lower address is locked first; the
\* mapping of an XFS inode is the i_data embedded in the inode.
filemap_invalidate_lock_two(a, b, tab) ==
  IF tab[a].addr > tab[b].addr THEN <<b, a>> ELSE <<a, b>>

\* xfs_inode.c: the inode with the lower inode number is locked first.
xfs_lock_two_inodes(a, b) == IF a > b THEN <<b, a>> ELSE <<a, b>>

\* The pair taken in the order of the arguments.
swap_lock_pair_args(field, ip, tip, tab) == <<ip, tip>>

\* xfs_swap_extents: each pair is taken through its two-object helper.
swap_lock_pair(field, ip, tip, tab) ==
  CASE field = "i_rwsem" -> lock_two_nondirectories(ip, tip, tab)
    [] field = "invalidate_lock" -> filemap_invalidate_lock_two(ip, tip, tab)
    [] field = "i_lock" -> xfs_lock_two_inodes(ip, tip)

swap_lock_level(field, ip, tip, tab) ==
  << LockReq(swap_lock_pair(field, ip, tip, tab)[1], field, "excl"),
     LockReq(swap_lock_pair(field, ip, tip, tab)[2], field, "excl") >>

\* xfs_swap_extents: the inode locks, the invalidate locks, and after the
\* transaction is allocated the ILOCKs.
swap_locks(ip, tip, tab) ==
  swap_lock_level("i_rwsem", ip, tip, tab)
    \o swap_lock_level("invalidate_lock", ip, tip, tab)
    \o swap_lock_level("i_lock", ip, tip, tab)

\* xfs_getbmap: IOLOCK shared, then the ILOCK in the mode the fork needs
\* (exclusive when the extent list still has to be read in).
getbmap_locks(i, mode) ==
  << LockReq(i, "i_rwsem", "shared"), LockReq(i, "i_lock", mode) >>

\* xfs_collapse_file_space, xfs_insert_file_space: the caller holds the
\* IOLOCK and the MMAPLOCK exclusively, the handler takes the ILOCK.
shift_locks(i) ==
  << LockReq(i, "i_rwsem", "excl"), LockReq(i, "invalidate_lock", "excl"),
     LockReq(i, "i_lock", "excl") >>

\* xfs_bmap_punch_delalloc_range: the ILOCK alone.
punch_locks(i) == << LockReq(i, "i_lock", "excl") >>

LockHolds(tab, p, i, field) == tab[i][field].w = p \/ p \in tab[i][field].r

LockAvailable(tab, req) ==
  /\ tab[req.ino][req.field].w = "none"
  /\ req.mode = "excl" => tab[req.ino][req.field].r = {}

LockGrant(tab, req, p) ==
  IF req.mode = "excl"
    THEN [tab EXCEPT ![req.ino][req.field].w = p]
    ELSE [tab EXCEPT ![req.ino][req.field].r = @ \cup {p}]

LockDrop(l, p) == [w |-> IF l.w = p THEN "none" ELSE l.w, r |-> l.r \ {p}]

LockDropAll(tab, p) ==
  [i \in Ino |-> [tab[i] EXCEPT !.i_rwsem = LockDrop(@, p),
                                !.invalidate_lock = LockDrop(@, p),
                                !.i_lock = LockDrop(@, p)]]

LockWants(p) == lv[p].plan[lv[p].k + 1]

InitLock ==
  /\ \E a \in {<<1, 2>>, <<2, 1>>} :
       inodes = [i \in Ino |-> [addr |-> a[i], i_rwsem |-> NoLock,
                                invalidate_lock |-> NoLock, i_lock |-> NoLock]]
  /\ mp = MkMount
  /\ pc = [p \in LockProcs |-> "idle"]
  /\ lv = [p \in LockProcs |-> NoPlan]
  /\ ret = NoRet
  /\ h = NoHist
  /\ out = NoOut

LockPlans(p) ==
  CASE p = "swap_a" -> {[op |-> "swap", plan |-> swap_locks(1, 2, inodes), k |-> 0]}
    [] p = "swap_b" -> {[op |-> "swap", plan |-> swap_locks(2, 1, inodes), k |-> 0]}
    [] p = "bmap" -> {[op |-> "getbmap", plan |-> getbmap_locks(i, mode), k |-> 0] :
                        i \in Ino, mode \in {"shared", "excl"}}
    [] p = "space" -> {[op |-> "shift", plan |-> shift_locks(i), k |-> 0] : i \in Ino}
                        \cup {[op |-> "punch", plan |-> punch_locks(i), k |-> 0] : i \in Ino}

\* A process enters its handler.
LockCall ==
  \E p \in LockProcs : \E l \in LockPlans(p) :
    /\ pc[p] = "idle"
    /\ pc' = [pc EXCEPT ![p] = "locking"]
    /\ lv' = [lv EXCEPT ![p] = l]
    /\ UNCHANGED <<inodes, mp, ret, h, out>>

\* The next lock of the handler is free and the process takes it.
LockAcquire ==
  \E p \in LockProcs :
    /\ pc[p] = "locking"
    /\ LockAvailable(inodes, LockWants(p))
    /\ inodes' = LockGrant(inodes, LockWants(p), p)
    /\ lv' = [lv EXCEPT ![p].k = @ + 1]
    /\ pc' = [pc EXCEPT ![p] = IF lv[p].k + 1 = Len(lv[p].plan) THEN "locked"
                                 ELSE "locking"]
    /\ UNCHANGED <<mp, ret, h, out>>

\* xfs_lock_two_inodes, first inode in the AIL: the second ILOCK is only
\* tried, and when it is taken the first is dropped and the pair retried.
LockTryAgain ==
  \E p \in LockSwaps :
    /\ pc[p] = "locking" /\ lv[p].k = 5
    /\ ~LockAvailable(inodes, LockWants(p))
    /\ inodes' = [inodes EXCEPT ![lv[p].plan[5].ino].i_lock = LockDrop(@, p)]
    /\ lv' = [lv EXCEPT ![p].k = 4]
    /\ UNCHANGED <<mp, pc, ret, h, out>>

\* xfs_swap_extents fails before the ILOCKs are taken (goto out_unlock).
LockError ==
  \E p \in LockSwaps :
    /\ pc[p] = "locking" /\ lv[p].k = 4
    /\ inodes' = LockDropAll(inodes, p)
    /\ pc' = [pc EXCEPT ![p] = "idle"]
    /\ lv' = [lv EXCEPT ![p] = NoPlan]
    /\ UNCHANGED <<mp, ret, h, out>>

\* The handler unlocks and returns.
LockRelease ==
  \E p \in LockProcs :
    /\ pc[p] = "locked"
    /\ inodes' = LockDropAll(inodes, p)
    /\ pc' = [pc EXCEPT ![p] = "idle"]
    /\ lv' = [lv EXCEPT ![p] = NoPlan]
    /\ UNCHANGED <<mp, ret, h, out>>

NextLock == LockCall \/ LockAcquire \/ LockTryAgain \/ LockError \/ LockRelease

SpecLock == InitLock /\ [][NextLock]_vars

LockBlocked(p) == pc[p] = "locking" /\ ~LockAvailable(inodes, LockWants(p))

\* p cannot go on before q does: q holds the lock p is blocked on, or p
\* wants it shared and queues behind q, blocked for the same lock exclusive.
LockWaitsFor(p, q) ==
  /\ p # q
  /\ LockBlocked(p)
  /\ \/ LockHolds(inodes, q, LockWants(p).ino, LockWants(p).field)
     \/ /\ LockWants(p).mode = "shared"
        /\ LockBlocked(q)
        /\ LockWants(q).ino = LockWants(p).ino
        /\ LockWants(q).field = LockWants(p).field
        /\ LockWants(q).mode = "excl"

LockWaitStep(S) == S \cup {q \in LockProcs : \E x \in S : LockWaitsFor(x, q)}

LockWaitSet(p) ==
  LockWaitStep(LockWaitStep(LockWaitStep({q \in LockProcs : LockWaitsFor(p, q)})))

LockCycle == \E p \in LockProcs : p \in LockWaitSet(p)

LockHoldsPair(p, field) == \A i \in Ino : LockHolds(inodes, p, i, field)

LockHoldsAny(p, field) == \E i \in Ino : LockHolds(inodes, p, i, field)

LockLowAddr == CHOOSE i \in Ino : \A j \in Ino : inodes[i].addr <= inodes[j].addr

\* The locks a swap holds: a pair is begun only when the pair before it is
\* complete, and within a pair the inode that comes first (by address for
\* the inode and invalidate locks, by inode number for the ILOCK) is held
\* whenever the other is.
SwapCanonical(p) ==
  /\ LockHoldsAny(p, "invalidate_lock") => LockHoldsPair(p, "i_rwsem")
  /\ LockHoldsAny(p, "i_lock") => LockHoldsPair(p, "invalidate_lock")
  /\ LockHoldsAny(p, "i_rwsem") => LockHolds(inodes, p, LockLowAddr, "i_rwsem")
  /\ LockHoldsAny(p, "invalidate_lock")
       => LockHolds(inodes, p, LockLowAddr, "invalidate_lock")
  /\ LockHoldsAny(p, "i_lock") => LockHolds(inodes, p, 1, "i_lock")

\* C20: two concurrent xfs_swap_extents calls on the same two files with
\* the arguments reversed never deadlock: each takes the inode-lock pair,
\* then the invalidate-lock pair, then the ILOCK pair, each pair in an order
\* that does not depend on the order of the arguments, and no process
\* (either swap, a concurrent xfs_getbmap, a concurrent single-file space
\* operation) is ever part of a cycle of processes waiting for each other.
C20_SwapNoDeadlock ==
  /\ ~LockCycle
  /\ \A p \in LockSwaps : SwapCanonical(p)

\* Both swaps are running with reversed arguments on files whose address
\* order is the reverse of their inode-number order: one holds all six
\* locks, the other waits for its first lock, and xfs_getbmap waits too.
C20_Witness ==
  /\ inodes[1].addr > inodes[2].addr
  /\ pc["swap_a"] = "locked"
  /\ \A i \in Ino : /\ inodes[i].i_rwsem.w = "swap_a"
                    /\ inodes[i].invalidate_lock.w = "swap_a"
                    /\ inodes[i].i_lock.w = "swap_a"
  /\ LockBlocked("swap_b") /\ lv["swap_b"].k = 0
  /\ LockBlocked("bmap")
  /\ LockWaitsFor("swap_b", "swap_a")

\* A swap waits for its second ILOCK while a single-file operation that
\* takes the ILOCK alone holds it.
SwapWaitsForPunch ==
  /\ LockBlocked("swap_b") /\ lv["swap_b"].k = 5
  /\ lv["space"].op = "punch" /\ pc["space"] = "locked"
  /\ LockWaitsFor("swap_b", "space")

(***************************************************************************)
(* The locks held while xfs_collapse_file_space and xfs_insert_file_space  *)
(* run.  A handler is the list of its lock, unlock and transaction events  *)
(* in program order; inodes[i] holds the locks as in SpecLock, lv[p] the   *)
(* events of process p and the number of them already performed.  The      *)
(* caller of the handler takes the IOLOCK and the MMAPLOCK before the call *)
(* and drops them after the return.                                        *)
(***************************************************************************)
HoldProcs == {"shift", "bmap", "punch"}

HoldEv(act, i, field, mode, part) ==
  [act |-> act, ino |-> i, field |-> field, mode |-> mode, part |-> part]

RECURSIVE HoldRepeat(_, _)
HoldRepeat(evs, n) == IF n = 0 THEN << >> ELSE evs \o HoldRepeat(evs, n - 1)

\* xfs_file_fallocate (xfs_file.c): xfs_ilock(ip, XFS_IOLOCK_EXCL | XFS_MMAPLOCK_EXCL).
hold_caller_lock(i) ==
  << HoldEv("lock", i, "i_rwsem", "excl", "caller"),
     HoldEv("lock", i, "invalidate_lock", "excl", "caller") >>

hold_caller_unlock(i) ==
  << HoldEv("unlock", i, "invalidate_lock", "excl", "caller"),
     HoldEv("unlock", i, "i_rwsem", "excl", "caller") >>

\* xfs_unmap_extent: one transaction of the unmap loop of xfs_free_file_space.
hold_unmap_events(i) ==
  << HoldEv("lock", i, "i_lock", "excl", "free"),
     HoldEv("step", i, "i_lock", "excl", "free"),
     HoldEv("unlock", i, "i_lock", "excl", "free") >>

\* xfs_prepare_shift: xfs_can_free_eofblocks reads under the shared ILOCK,
\* and when it says yes xfs_free_eofblocks truncates under the exclusive one.
hold_prepare_events(i, trim) ==
  << HoldEv("lock", i, "i_lock", "shared", "prepare"),
     HoldEv("unlock", i, "i_lock", "shared", "prepare") >>
  \o (IF trim THEN << HoldEv("lock", i, "i_lock", "excl", "prepare"),
                      HoldEv("step", i, "i_lock", "excl", "prepare"),
                      HoldEv("unlock", i, "i_lock", "excl", "prepare") >>
      ELSE << >>)

\* A roll that would give up the IOLOCK while the transaction is rolled.
hold_roll_relock(i) ==
  << HoldEv("unlock", i, "i_rwsem", "excl", "roll"),
     HoldEv("step", i, "i_lock", "excl", "roll"),
     HoldEv("lock", i, "i_rwsem", "excl", "roll") >>

\* xfs_defer_finish: the deferred operations are finished and the
\* transaction rolled with the inode joined, no lock is touched.
hold_roll(i) == << HoldEv("step", i, "i_lock", "excl", "roll") >>

hold_shift_step(i) == << HoldEv("step", i, "i_lock", "excl", "shift") >>

\* xfs_collapse_file_space: n unmap transactions, the preparation, then
\* under one ILOCK m shift steps with a roll after each one but the last.
collapse_events(i, n, trim, m) ==
  hold_caller_lock(i)
    \o HoldRepeat(hold_unmap_events(i), n)
    \o hold_prepare_events(i, trim)
    \o << HoldEv("lock", i, "i_lock", "excl", "shift") >>
    \o HoldRepeat(hold_shift_step(i) \o hold_roll(i), m - 1)
    \o hold_shift_step(i)
    \o << HoldEv("unlock", i, "i_lock", "excl", "shift") >>
    \o hold_caller_unlock(i)

\* xfs_insert_file_space: the preparation, then under one ILOCK the split
\* and m shift steps with a roll before each.
insert_events(i, trim, m) ==
  hold_caller_lock(i)
    \o hold_prepare_events(i, trim)
    \o << HoldEv("lock", i, "i_lock", "excl", "shift"),
          HoldEv("step", i, "i_lock", "excl", "split") >>
    \o HoldRepeat(hold_roll(i) \o hold_shift_step(i), m)
    \o << HoldEv("unlock", i, "i_lock", "excl", "shift") >>
    \o hold_caller_unlock(i)

\* xfs_getbmap reads the extent list under the shared IOLOCK and ILOCK.
getbmap_events(i) ==
  << HoldEv("lock", i, "i_rwsem", "shared", "getbmap"),
     HoldEv("lock", i, "i_lock", "shared", "getbmap"),
     HoldEv("step", i, "i_lock", "shared", "getbmap"),
     HoldEv("unlock", i, "i_lock", "shared", "getbmap"),
     HoldEv("unlock", i, "i_rwsem", "shared", "getbmap") >>

\* xfs_bmap_punch_delalloc_range works under the ILOCK alone.
punch_events(i) ==
  << HoldEv("lock", i, "i_lock", "excl", "punch"),
     HoldEv("step", i, "i_lock", "excl", "punch"),
     HoldEv("unlock", i, "i_lock", "excl", "punch") >>

HoldPlans(p) ==
  CASE p = "shift" ->
         {[op |-> "collapse", plan |-> collapse_events(1, n, trim, m), k |-> 0] :
            n \in 0..MaxCalls, trim \in BOOLEAN, m \in 1..MaxCalls}
         \cup {[op |-> "insert", plan |-> insert_events(1, trim, m), k |-> 0] :
                 trim \in BOOLEAN, m \in 1..MaxCalls}
    [] p = "bmap" -> {[op |-> "getbmap", plan |-> getbmap_events(1), k |-> 0]}
    [] p = "punch" -> {[op |-> "punch", plan |-> punch_events(1), k |-> 0]}

InitHold ==
  /\ inodes = [i \in Ino |-> [addr |-> i, i_rwsem |-> NoLock,
                              invalidate_lock |-> NoLock, i_lock |-> NoLock]]
  /\ mp = MkMount
  /\ pc = [p \in HoldProcs |-> "idle"]
  /\ lv = [p \in HoldProcs |-> NoPlan]
  /\ ret = NoRet
  /\ h = NoHist
  /\ out = NoOut

HoldNext(p) == lv[p].plan[lv[p].k + 1]

HoldAdvance(p) ==
  /\ lv' = [lv EXCEPT ![p].k = @ + 1]
  /\ pc' = [pc EXCEPT ![p] = IF lv[p].k + 1 = Len(lv[p].plan) THEN "idle" ELSE "run"]

\* A process starts an operation.
HoldCall ==
  \E p \in HoldProcs : \E l \in HoldPlans(p) :
    /\ pc[p] = "idle"
    /\ pc' = [pc EXCEPT ![p] = "run"]
    /\ lv' = [lv EXCEPT ![p] = l]
    /\ UNCHANGED <<inodes, mp, ret, h, out>>

\* xfs_ilock: the process takes the lock once it is free.
HoldLock ==
  \E p \in HoldProcs :
    /\ pc[p] = "run" /\ HoldNext(p).act = "lock"
    /\ LockAvailable(inodes, HoldNext(p))
    /\ inodes' = LockGrant(inodes, HoldNext(p), p)
    /\ HoldAdvance(p)
    /\ UNCHANGED <<mp, ret, h, out>>

\* xfs_iunlock.
HoldUnlock ==
  \E p \in HoldProcs :
    /\ pc[p] = "run" /\ HoldNext(p).act = "unlock"
    /\ inodes' = [inodes EXCEPT ![HoldNext(p).ino][HoldNext(p).field] = LockDrop(@, p)]
    /\ HoldAdvance(p)
    /\ UNCHANGED <<mp, ret, h, out>>

\* One transaction of the operation, or the read of xfs_getbmap.
HoldStep ==
  \E p \in HoldProcs :
    /\ pc[p] = "run" /\ HoldNext(p).act = "step"
    /\ HoldAdvance(p)
    /\ UNCHANGED <<inodes, mp, ret, h, out>>

HoldInHandler(p) ==
  pc[p] = "run" /\ lv[p].k >= 2 /\ lv[p].k <= Len(lv[p].plan) - 2

\* The handler fails: it drops the ILOCK if it holds it and returns the
\* error to its caller, which still has its two unlocks to do.
HoldError ==
  /\ HoldInHandler("shift") /\ lv["shift"].k < Len(lv["shift"].plan) - 2
  /\ HoldNext("shift").part # "roll" \/ HoldNext("shift").act = "step"
  /\ inodes' = [inodes EXCEPT ![1].i_lock = LockDrop(@, "shift")]
  /\ lv' = [lv EXCEPT !["shift"].k = Len(lv["shift"].plan) - 2]
  /\ UNCHANGED <<mp, pc, ret, h, out>>

NextHold == HoldCall \/ HoldLock \/ HoldUnlock \/ HoldStep \/ HoldError

SpecHold == InitHold /\ [][NextHold]_vars

\* The shift has done a shift step or the split and has another step to do.
HoldBetweenSteps ==
  /\ HoldInHandler("shift")
  /\ \E a \in 1..lv["shift"].k : lv["shift"].plan[a].part \in {"shift", "split"}
                                   /\ lv["shift"].plan[a].act = "step"
  /\ \E b \in (lv["shift"].k + 1)..Len(lv["shift"].plan) :
       lv["shift"].plan[b].part = "shift" /\ lv["shift"].plan[b].act = "step"

\* Process p holds every lock its read or punch needs.
HoldObserving(p) ==
  pc[p] = "run" /\ HoldNext(p).act = "step"

\* C21: from the entry of xfs_collapse_file_space or xfs_insert_file_space
\* to its return the exclusive IOLOCK and the exclusive MMAPLOCK of the
\* file stay with the caller, across every transaction and roll; so
\* xfs_getbmap never reads the extent list while the handler runs, and
\* between two steps of the shift the exclusive ILOCK is held too, which
\* keeps every other reader of the extent list out.
C21_ShiftHoldsLocks ==
  /\ HoldInHandler("shift")
       => /\ inodes[1].i_rwsem = [w |-> "shift", r |-> {}]
          /\ inodes[1].invalidate_lock = [w |-> "shift", r |-> {}]
          /\ ~HoldObserving("bmap")
  /\ HoldBetweenSteps
       => /\ inodes[1].i_lock = [w |-> "shift", r |-> {}]
          /\ ~HoldObserving("punch")

\* A collapse is between two shift steps, the roll done, while xfs_getbmap
\* waits for the IOLOCK and the punch for the ILOCK.
C21_Witness ==
  /\ lv["shift"].op = "collapse" /\ HoldBetweenSteps
  /\ lv["shift"].plan[lv["shift"].k].part = "roll"
  /\ pc["bmap"] = "run" /\ lv["bmap"].k = 0
  /\ pc["punch"] = "run" /\ lv["punch"].k = 0

\* The ILOCK is not held from the deallocation to the shift: the punch runs
\* after an unmap transaction of the collapse and before its shift.
HoldPunchBeforeShift ==
  /\ HoldInHandler("shift") /\ lv["shift"].op = "collapse"
  /\ lv["shift"].plan[lv["shift"].k].part = "free"
  /\ HoldObserving("punch")

(***************************************************************************)
(* The zeroing of xfs_free_file_space.                                     *)
(***************************************************************************)
FreeRunning == pc \in {"free_unmap", "free_zero"} \/ Returned("free")

FreeSize == h.pre[1].i_size

FreeZeroed == Returned("free") /\ ret.zero # << >>

\* C22: xfs_free_file_space never changes the file size and never zeroes
\* past end of file: a call with offset at or beyond end of file zeroes
\* nothing, and any other call that zeroes does so on the bytes
\* [offset, min(offset + len, file size)).
C22_FreeZeroRange ==
  /\ (h.n = 1 /\ FreeRunning) => inodes[1].i_size = FreeSize
  /\ (h.n = 1 /\ Returned("free") /\ ret.offset >= FreeSize) => ret.zero = << >>
  /\ (h.n = 1 /\ FreeZeroed)
       => /\ ret.offset < FreeSize
          /\ ret.zero[1] = ret.offset
          /\ ret.zero[1] + ret.zero[2] = Min(ret.offset + ret.len, FreeSize)

\* The range runs past end of file and the zeroing stops at end of file,
\* after whole blocks were unmapped.
C22_Witness ==
  /\ h.n = 1 /\ FreeZeroed /\ ret.error = OK
  /\ ret.offset + ret.len > FreeSize
  /\ ret.zero = <<ret.offset, FreeSize - ret.offset>>
  /\ inodes[1].i_df.if_ext # h.pre[1].i_df.if_ext

\* A call at or beyond end of file that unmapped blocks and zeroed nothing.
FreeBeyondEof ==
  /\ h.n = 1 /\ Returned("free") /\ ret.error = OK /\ ret.offset >= FreeSize
  /\ ret.zero = << >>
  /\ inodes[1].i_df.if_ext # h.pre[1].i_df.if_ext

(***************************************************************************)
(* The loop variables of xfs_alloc_file_space.                             *)
(***************************************************************************)
\* The loop variables between two iterations.
AllocLoopVars ==
  /\ lv.startoffset_fsb + lv.allocatesize_fsb = lv.endoffset_fsb
  /\ lv.allocatesize_fsb > 0

\* What one iteration that is followed by another has done to them: the
\* start moved up by what the remaining length lost, over blocks that are
\* mapped to real extents now; an iteration that mapped nothing new at the
\* start block and found it unmapped (-ENOSR) leaves both as they were.
\* Either way the preallocation flag is set.
AllocLoopStep ==
  /\ lv'.endoffset_fsb = lv.endoffset_fsb
  /\ lv'.startoffset_fsb - lv.startoffset_fsb = lv.allocatesize_fsb - lv'.allocatesize_fsb
  /\ lv'.startoffset_fsb >= lv.startoffset_fsb
  /\ \A b \in AllBlocks :
       (lv.startoffset_fsb <= b /\ b < lv'.startoffset_fsb)
         => IsReal(MapAt(inodes'[lv.ip].i_df.if_ext, b))
  /\ ~IsReal(MapAt(inodes'[lv.ip].i_df.if_ext, lv.startoffset_fsb))
       => /\ lv' = lv
          /\ inodes'[lv.ip].i_df.if_ext = inodes[lv.ip].i_df.if_ext
  /\ inodes'[lv.ip].prealloc

\* C23: in the loop of xfs_alloc_file_space the start block plus the
\* remaining length is the end block of the request in every iteration and
\* the remaining length never passes zero; both change only by the length
\* of the extent the allocator returned; an iteration that got -ENOSR still
\* sets the preallocation flag and commits, and the next iteration has the
\* same start block and remaining length.
C23_AllocLoopVars ==
  [][pc = "alloc" => /\ AllocLoopVars
                     /\ pc' = "alloc" => AllocLoopStep]_vars

\* An iteration got -ENOSR and committed: the loop is at its first start
\* block with nothing mapped there, and the flag is set that was clear at
\* entry.
C23_Witness ==
  /\ pc = "alloc" /\ h.n = 1
  /\ lv.startoffset_fsb = alloc_startoffset_fsb(lv.offset)
  /\ lv.startoffset_fsb + lv.allocatesize_fsb = alloc_endoffset_fsb(lv.offset, lv.len)
  /\ ~IsReal(MapAt(inodes[1].i_df.if_ext, lv.startoffset_fsb))
  /\ inodes[1].prealloc /\ ~h.pre[1].prealloc
  /\ inodes[1].i_df.if_ext = h.pre[1].i_df.if_ext

\* The loop has moved on after a short extent and has blocks left.
AllocAdvanced ==
  /\ pc = "alloc" /\ h.n = 1
  /\ lv.startoffset_fsb > alloc_startoffset_fsb(lv.offset)
  /\ lv.allocatesize_fsb > 0
  /\ inodes[1].i_nblocks > h.pre[1].i_nblocks

(***************************************************************************)
(* The space reservation of one iteration of xfs_alloc_file_space.         *)
(*                                                                         *)
(* The window is computed from the loop variables and the extent size hint *)
(* alone; lv holds them, and the window once it is computed.               *)
(***************************************************************************)
\* Lines 839-842: s = startoffset_fsb; do_div(s, extsz); s *= extsz.
alloc_resv_s(startoffset_fsb, extsz) ==
  IF extsz # 0 THEN (startoffset_fsb \div extsz) * extsz ELSE 0

\* Lines 843-849: e starts as the end block, gets the remainder of the
\* start block added, and is then rounded up to a multiple of extsz.
alloc_resv_e(startoffset_fsb, allocatesize_fsb, extsz) ==
  IF extsz # 0
  THEN LET e1 == startoffset_fsb + allocatesize_fsb
           e2 == IF startoffset_fsb % extsz # 0
                 THEN e1 + (startoffset_fsb % extsz) ELSE e1
       IN IF e2 % extsz # 0 THEN e2 + (extsz - (e2 % extsz)) ELSE e2
  ELSE allocatesize_fsb

\* Lines 862-863, with nimaps = 1.
alloc_resblks(s, e) == Min(e - s, XFS_MAX_BMBT_EXTLEN * 1)

\* Values of xfs_get_extsz_hint(ip): no hint, or a hint in blocks.
ResvHints == 0..(MaxFsb + 1)

ResvStarts == (0..MaxFsb) \cup {XFS_MAX_BMBT_EXTLEN - 1}

ResvSizes == (1..MaxFsb) \cup {XFS_MAX_BMBT_EXTLEN - 1, XFS_MAX_BMBT_EXTLEN + 1}

NoResv ==
  [startoffset_fsb |-> 0, allocatesize_fsb |-> 0, endoffset_fsb |-> 0,
   extsz |-> 0, s |-> 0, e |-> 0, resblks |-> 0]

InitResv ==
  /\ inodes = [i \in Ino |-> MkInode(<< >>, 0)]
  /\ mp = MkMount
  /\ pc = "idle"
  /\ lv = NoResv
  /\ ret = NoRet
  /\ h = NoHist
  /\ out = NoOut

\* Entry: the loop variables of a request and the hint of the file.
ResvCall ==
  /\ pc = "idle"
  /\ \E start \in ResvStarts, size \in ResvSizes, extsz \in ResvHints :
       lv' = [NoResv EXCEPT !.startoffset_fsb = start, !.allocatesize_fsb = size,
                            !.endoffset_fsb = start + size, !.extsz = extsz]
  /\ pc' = "resv"
  /\ UNCHANGED <<inodes, mp, ret, h, out>>

\* The head of an iteration: the window and the blocks to reserve.
ResvWindow ==
  /\ pc = "resv"
  /\ lv' = [lv EXCEPT
       !.s = alloc_resv_s(lv.startoffset_fsb, lv.extsz),
       !.e = alloc_resv_e(lv.startoffset_fsb, lv.allocatesize_fsb, lv.extsz),
       !.resblks = alloc_resblks(
                     alloc_resv_s(lv.startoffset_fsb, lv.extsz),
                     alloc_resv_e(lv.startoffset_fsb, lv.allocatesize_fsb, lv.extsz))]
  /\ pc' = "resv_write"
  /\ UNCHANGED <<inodes, mp, ret, h, out>>

\* Lengths the allocator returns for a request of size blocks: nothing,
\* the longest extent that fits, or (of a short request) one block.
ResvLens(size) ==
  {0, Min(size, XFS_MAX_BMBT_EXTLEN)} \cup (IF size <= MaxFsb THEN {1} ELSE {})

\* The rest of the iteration: the allocator returns an extent or nothing,
\* and the loop goes on while blocks remain.
ResvWrite ==
  /\ pc = "resv_write"
  /\ \E n \in ResvLens(lv.allocatesize_fsb) :
       /\ lv' = [lv EXCEPT !.startoffset_fsb = @ + n, !.allocatesize_fsb = @ - n]
       /\ pc' = IF lv.allocatesize_fsb - n = 0 THEN "idle" ELSE "resv"
  /\ UNCHANGED <<inodes, mp, ret, h, out>>

NextResv == ResvCall \/ ResvWindow \/ ResvWrite

SpecResv == InitResv /\ [][NextResv]_vars

ResvHinted == pc = "resv_write" /\ lv.extsz > 0

ResvRoundUp(x, extsz) == ((x + extsz - 1) \div extsz) * extsz

\* C24: with an extent size hint extsz > 0 the window [s, e) of an
\* iteration has s at the start block rounded down to a multiple of extsz
\* and e at the end block (start plus remaining length) rounded up to a
\* multiple of extsz, so that it holds the requested blocks, and the blocks
\* reserved are min(e - s, XFS_MAX_BMBT_EXTLEN), never more than the
\* longest extent.
C24_AllocWindow ==
  ResvHinted =>
    /\ lv.s = (lv.startoffset_fsb \div lv.extsz) * lv.extsz
    /\ lv.e = ResvRoundUp(lv.startoffset_fsb + lv.allocatesize_fsb, lv.extsz)
    /\ lv.s <= lv.startoffset_fsb
    /\ lv.e >= lv.startoffset_fsb + lv.allocatesize_fsb
    /\ lv.resblks = Min(lv.e - lv.s, XFS_MAX_BMBT_EXTLEN)
    /\ lv.resblks <= XFS_MAX_BMBT_EXTLEN

\* What holds of the window: everything but the place of e, which lies at
\* the rounded-up end block or one hint further, and at the rounded-up end
\* block whenever the start block is a multiple of the hint.
ResvWindowHolds ==
  ResvHinted =>
    /\ lv.s = (lv.startoffset_fsb \div lv.extsz) * lv.extsz
    /\ lv.e \in {ResvRoundUp(lv.startoffset_fsb + lv.allocatesize_fsb, lv.extsz),
                 ResvRoundUp(lv.startoffset_fsb + lv.allocatesize_fsb, lv.extsz) + lv.extsz}
    /\ lv.startoffset_fsb % lv.extsz = 0
         => lv.e = ResvRoundUp(lv.startoffset_fsb + lv.allocatesize_fsb, lv.extsz)
    /\ lv.s <= lv.startoffset_fsb
    /\ lv.e >= lv.startoffset_fsb + lv.allocatesize_fsb
    /\ lv.resblks = Min(lv.e - lv.s, XFS_MAX_BMBT_EXTLEN)
    /\ lv.resblks <= XFS_MAX_BMBT_EXTLEN

\* The window is longer than the longest extent and the reservation is cut.
ResvCapped ==
  /\ ResvHinted /\ lv.e - lv.s > XFS_MAX_BMBT_EXTLEN
  /\ lv.resblks = XFS_MAX_BMBT_EXTLEN

\* The window ends one hint beyond the rounded-up end block.
ResvTooFar ==
  /\ ResvHinted
  /\ lv.e = ResvRoundUp(lv.startoffset_fsb + lv.allocatesize_fsb, lv.extsz) + lv.extsz

(***************************************************************************)
(* Termination of xfs_alloc_file_space.                                    *)
(*                                                                         *)
(* The loop is run without hard errors, and the allocator is fair: it      *)
(* does not answer -ENOSR for ever while an extent could be returned.      *)
(***************************************************************************)
\* An iteration that does not end in a hard error.
AllocNoHardError == AllocIter /\ (pc' = "idle" => ret'.error = OK)

\* An iteration in which the allocator returned an extent.
AllocProgress ==
  AllocNoHardError /\ (pc' = "idle" \/ lv'.allocatesize_fsb < lv.allocatesize_fsb)

\* Files of holes, written and delayed blocks, laid out in order.
InitAllocLive ==
  /\ \E k \in [Blocks -> {"H", "N", "D"}] :
       inodes = [i \in Ino |-> IF i = 1 THEN MkInode(Build(k, PhysContig(0), 0, << >>), 0)
                              ELSE MkInode(<< >>, 0)]
  /\ mp = MkMount
  /\ pc = "idle"
  /\ lv = NoLv
  /\ ret = NoRet
  /\ h = NoHist
  /\ out = NoOut

AllocLiveCall ==
  /\ h.n = 0
  /\ \E offset \in {0, 1, BlockSize}, len \in {1, BlockSize + 1, MaxFsb * BlockSize} :
       xfs_alloc_file_space(1, offset, len)
  /\ Enter

NextAllocLive == AllocLiveCall \/ AllocNoHardError

SpecAllocLive == InitAllocLive /\ [][NextAllocLive]_vars /\ WF_vars(AllocProgress)

AllocRangeMapped ==
  \A b \in (ret.offset \div BlockSize)..((ret.offset + ret.len - 1) \div BlockSize) :
    IsReal(MapAt(inodes[1].i_df.if_ext, b))

\* C25: xfs_alloc_file_space terminates: without a hard error, and with an
\* allocator that returns an extent after finitely many -ENOSR answers, a
\* call that has entered its loop eventually returns success, and when it
\* returns success no block of the range is left unallocated.
C25_AllocTerminates ==
  (pc = "alloc") ~> (Returned("alloc") /\ ret.error = OK /\ AllocRangeMapped)

\* The call has returned success over a range that had unmapped blocks at
\* entry and that took more than one extent to fill.
C25_Witness ==
  /\ Returned("alloc") /\ ret.error = OK /\ h.n = 1 /\ AllocRangeMapped
  /\ \E b \in (ret.offset \div BlockSize)..((ret.offset + ret.len - 1) \div BlockSize) :
       ~IsReal(MapAt(h.pre[1].i_df.if_ext, b))
  /\ inodes[1].i_nblocks >= h.pre[1].i_nblocks + 2

(***************************************************************************)
(* The unmap loop of xfs_free_file_space.                                  *)
(***************************************************************************)
\* The records of ext that reach into the blocks [s, e).
FreeInRange(ext, s, e) ==
  {i \in 1..Len(ext) : ext[i].br_startoff < e /\ ExtEnd(ext[i]) > s}

\* What one pass of the loop does, whatever its outcome; bound is the
\* number of passes the call may make.
FreeLoopPass(bound) ==
  LET s == lv.startoffset_fsb
      e == lv.endoffset_fsb
      before == inodes[lv.ip].i_df.if_ext
      after == inodes'[lv.ip].i_df.if_ext
      left == Cardinality(FreeInRange(before, s, e))
      left2 == Cardinality(FreeInRange(after, s, e))
  IN /\ e > s
     /\ lv.nsteps + 1 <= bound
     /\ left - left2 \in 0..2
     /\ \A b \in AllBlocks :
          \/ MapAt(after, b) = MapAt(before, b)
          \/ s <= b /\ b < e /\ MapAt(after, b) = Hole
     /\ pc' = "free_unmap"
          => /\ lv'.startoffset_fsb = s /\ lv'.endoffset_fsb = e
             /\ lv'.nsteps = lv.nsteps + 1
     /\ pc' = "free_zero" => left2 = 0
     /\ pc' = "idle" => ret'.op = lv.op /\ ret'.error # OK /\ ret'.zero = << >>
     /\ pc' \in {"free_unmap", "free_zero", "idle"}

\* The records the range held when the call began.
FreeExtentsAtCall ==
  Cardinality(FreeInRange(h.pre[lv.ip].i_df.if_ext, lv.startoffset_fsb, lv.endoffset_fsb))

\* C26: in xfs_free_file_space the unmap loop runs only when the clamped
\* block range is non-empty; every pass is one transaction over the same
\* block range and takes at most two extents out of it; the loop ends when
\* the primitive reports done, which leaves no extent in the range; the
\* number of passes is at most the number of extents the range held; and a
\* failing pass returns its error at once, with nothing mapped again and no
\* zeroing done.
C26_FreeUnmapLoop ==
  [][pc = "free_unmap" => FreeLoopPass(FreeExtentsAtCall)]_vars

\* C26 as the code has it: the same, except that the loop always makes a
\* first pass, so a range that holds no extent takes one pass: the number
\* of passes is at most the larger of one and the number of extents.
C26_FreeUnmapLoop_Amended ==
  [][pc = "free_unmap" => FreeLoopPass(Max(1, FreeExtentsAtCall))]_vars

\* A call whose loop made two passes, three extents unmapped, and went on
\* to the zeroing.
C26_Witness ==
  /\ h.n = 1 /\ pc = "free_zero" /\ lv.nsteps = 2
  /\ Len(h.pre[1].i_df.if_ext) = 3
  /\ FreeInRange(inodes[1].i_df.if_ext, lv.startoffset_fsb, lv.endoffset_fsb) = {}

\* A call whose second pass failed: the extents of the first pass stay
\* unmapped and nothing was zeroed.
FreeSecondPassFailed ==
  /\ h.n = 1 /\ Returned("free") /\ ret.error = "ENOSPC" /\ ret.zero = << >>
  /\ Len(h.pre[1].i_df.if_ext) = 3
  /\ Len(inodes[1].i_df.if_ext) = 1

\* A non-empty block range that holds no extent: the loop made its one pass.
FreeEmptyRangePass ==
  /\ h.n = 1 /\ pc = "free_zero" /\ lv.nsteps = 1
  /\ FreeInRange(h.pre[1].i_df.if_ext, lv.startoffset_fsb, lv.endoffset_fsb) = {}

(***************************************************************************)
(* SpecPrep: xfs_prepare_shift taken one step at a time, on files with     *)
(* delayed allocations, blocks beyond end of file and staged               *)
(* copy-on-write blocks, of both storage classes.                          *)
(***************************************************************************)
\* Staged copy-on-write blocks over every block of the file.
PrepCow == <<Ext(0, 4 * MaxFsb, MaxFsb, XFS_EXT_NORM)>>

PrepInode(f, size, pre, cow, rt) ==
  [MkInode(f, size) EXCEPT !.prealloc = pre, !.rt = rt,
                          !.i_cowfp = IF cow THEN [present |-> TRUE, if_ext |-> PrepCow]
                                      ELSE @]

PrepMount(rt) == [MkMount EXCEPT !.sb_rextsize = IF rt THEN 2 ELSE 1]

InitPrep ==
  /\ \E f \in Forks(Kinds, 0), size \in {BlockSize + 1, MaxFsb * BlockSize},
        pre \in BOOLEAN, cow \in BOOLEAN, rt \in BOOLEAN :
       /\ inodes = [i \in Ino |-> IF i = 1 THEN PrepInode(f, size, pre, cow, rt)
                                  ELSE MkInode(<< >>, 0)]
       /\ mp = PrepMount(rt)
  /\ pc = "idle"
  /\ lv = NoLv
  /\ ret = NoRet
  /\ h = NoHist
  /\ out = NoOut

PrepCall ==
  /\ pc = "idle" /\ h.n = 0
  /\ \E offset \in Offsets :
       lv' = [NoLv EXCEPT !.op = "prepare_shift", !.ip = 1, !.offset = offset]
  /\ pc' = "prep_trim"
  /\ Enter
  /\ UNCHANGED <<inodes, mp, ret, out>>

\* Lines 1070-1074: trim the blocks beyond end of file.
PrepTrim ==
  /\ pc = "prep_trim"
  /\ UNCHANGED <<h, out>>
  /\ IF xfs_can_free_eofblocks(inodes[lv.ip], mp)
     THEN \E e \in xfs_free_eofblocks(inodes[lv.ip], mp) :
            /\ inodes' = [inodes EXCEPT ![lv.ip] = e.ip]
            /\ mp' = [mp EXCEPT !.shutdown = @ \/ e.shutdown]
            /\ IF e.error # OK THEN Return(lv, e.error)
               ELSE pc' = "prep_flush" /\ UNCHANGED <<lv, ret>>
     ELSE pc' = "prep_flush" /\ UNCHANGED <<inodes, mp, lv, ret>>

\* Lines 1084-1095: flush and invalidate from the boundary to end of file.
PrepFlush ==
  /\ pc = "prep_flush"
  /\ UNCHANGED <<h, out, mp>>
  /\ \E f \in xfs_flush_unmap_range(inodes[lv.ip], mp, Used,
                                    prepare_shift_offset(inodes[lv.ip], mp, lv.offset),
                                    inodes[lv.ip].i_size) :
       /\ inodes' = [inodes EXCEPT ![lv.ip] = f.ip]
       /\ IF f.error # OK THEN Return(lv, f.error)
          ELSE pc' = "prep_cow" /\ UNCHANGED <<lv, ret>>

\* Lines 1102-1107: cancel the staged copy-on-write blocks.
PrepCancelCow ==
  /\ pc = "prep_cow"
  /\ UNCHANGED <<h, out, mp>>
  /\ IF xfs_inode_has_cow_data(inodes[lv.ip])
     THEN \/ Return(lv, "EIO") /\ UNCHANGED inodes
          \/ /\ ~mp.shutdown
             /\ inodes' = [inodes EXCEPT ![lv.ip] =
                  xfs_reflink_cancel_cow_range(
                    @, prepare_shift_offset(inodes[lv.ip], mp, lv.offset))]
             /\ Return(lv, OK)
     ELSE Return(lv, OK) /\ UNCHANGED inodes

NextPrep == PrepCall \/ PrepTrim \/ PrepFlush \/ PrepCancelCow
SpecPrep == InitPrep /\ [][NextPrep]_vars

\* An inode without the physical block numbers of its data fork, which
\* are the allocator's choice.
PrepView(ip) ==
  [ip EXCEPT !.i_df.if_ext =
     [k \in AllBlocks |->
        LET m == MapAt(ip.i_df.if_ext, k)
        IN [m EXCEPT !.blk = IF IsReal(m) THEN 0 ELSE @]]]

\* The steps of SpecPrep end where xfs_prepare_shift, as the shift
\* operations use it, ends.
PrepAsCalled ==
  Returned("prepare_shift") =>
    \E r \in xfs_prepare_shift(h.pre[1], [mp EXCEPT !.shutdown = FALSE],
                               PhysOf(h.pre[1].i_df.if_ext)
                                 \cup PhysOf(h.pre[1].i_cowfp.if_ext),
                               ret.offset) :
      /\ r.error = ret.error
      /\ r.shutdown = mp.shutdown
      /\ PrepView(r.ip) = PrepView(inodes[1])

\* The byte the claim has the flush start at.
PrepBoundary ==
  LET unit == xfs_inode_alloc_unitsize(inodes[lv.ip], mp)
  IN Max(0, (lv.offset \div unit) * unit - unit)

PrepDataSame(a, b, lo, hi) ==
  \A k \in AllBlocks : (lo <= k /\ k < hi) => MapAt(a.i_df.if_ext, k) = MapAt(b.i_df.if_ext, k)

PrepStep ==
  LET ip == inodes[1]
      ip2 == inodes'[1]
      eof == XFS_B_TO_FSB(ip.i_size)
      from == XFS_B_TO_FSBT(PrepBoundary)
  IN /\ pc = "idle" => pc' = "prep_trim"
     /\ pc = "prep_trim"
          => /\ pc' \in {"prep_flush", "idle"}
             /\ pc' = "idle" => ret'.error # OK
             /\ PrepDataSame(ip, ip2, 0, eof)
             /\ CutFrom(ip2.i_cowfp.if_ext, eof) = CutFrom(ip.i_cowfp.if_ext, eof)
     /\ pc = "prep_flush"
          => /\ pc' \in {"prep_cow", "idle"}
             /\ pc' = "idle" => ret'.error # OK
             /\ ip2.i_cowfp = ip.i_cowfp
             /\ PrepDataSame(ip, ip2, 0, XFS_B_TO_FSBT(flush_unmap_start(ip, mp, PrepBoundary)))
             /\ PrepDataSame(ip, ip2, eof, MaxFileoff)
             /\ pc' = "prep_cow"
                  => \A k \in AllBlocks :
                       (from <= k /\ k < eof)
                         => MapAt(ip2.i_df.if_ext, k).blk # DELAYSTARTBLOCK
     /\ pc = "prep_cow"
          => /\ pc' = "idle"
             /\ ip2.i_df = ip.i_df
             /\ ret'.error = OK => ip2.i_cowfp.if_ext = CutFrom(ip.i_cowfp.if_ext, from)
             /\ ret'.error # OK => ip2 = ip
     /\ ip2.i_size = ip.i_size

\* C27: xfs_prepare_shift trims the blocks beyond end of file, then
\* flushes and invalidates, then cancels the staged copy-on-write blocks,
\* in that order, and a failing step returns its error with no later step
\* done; the flush starts at the shift offset rounded down to the
\* allocation unit and moved back by one more unit, never below zero, and
\* covers every byte from there through end of file.
C27_PrepareShiftOrder == [][PrepStep]_vars

\* All three steps did something: blocks beyond end of file are gone, a
\* delayed allocation below end of file was written, and staged blocks
\* were cancelled from the boundary on, which lies below the shift offset.
C27_Witness ==
  /\ Returned("prepare_shift") /\ ret.error = OK
  /\ \E k \in AllBlocks : /\ MapAt(h.pre[1].i_df.if_ext, k).blk = DELAYSTARTBLOCK
                          /\ IsReal(MapAt(inodes[1].i_df.if_ext, k))
  /\ \E k \in AllBlocks : /\ MapAt(h.pre[1].i_df.if_ext, k) # Hole
                          /\ MapAt(inodes[1].i_df.if_ext, k) = Hole
  /\ xfs_inode_has_cow_data(h.pre[1])
  /\ inodes[1].i_cowfp.if_ext # h.pre[1].i_cowfp.if_ext
  /\ inodes[1].i_cowfp.if_ext # << >>
  /\ ret.offset >= 2 * BlockSize

\* The flush failed after the trim worked: the staged blocks are all there.
PrepFlushFailed ==
  /\ Returned("prepare_shift") /\ ret.error = "EIO"
  /\ inodes[1].i_df.if_ext # h.pre[1].i_df.if_ext
  /\ inodes[1].i_cowfp = h.pre[1].i_cowfp
  /\ xfs_inode_has_cow_data(h.pre[1])
  /\ ~mp.shutdown

(***************************************************************************)
(* The steps of xfs_collapse_file_space.                                   *)
(***************************************************************************)
\* The blocks lo .. hi - 1 of ext are holes.
AllHoles(ext, lo, hi) == \A b \in AllBlocks : (lo <= b /\ b < hi) => MapAt(ext, b) = Hole

\* Every block that ext maps is mapped by ext2 where it was or shift lower.
StayedOrMoved(ext, ext2, shift) ==
  \A b \in AllBlocks :
    IsReal(MapAt(ext, b)) =>
      \/ MapAt(ext2, b) = MapAt(ext, b)
      \/ b >= shift /\ MapAt(ext2, b - shift) = MapAt(ext, b)

\* The records of ext that end after bno: those a lookup of bno walks.
RecordsFrom(ext, bno) == {i \in 1..Len(ext) : ExtEnd(ext[i]) > bno}

CollapseStep ==
  LET ext == inodes[1].i_df.if_ext
      ext2 == inodes'[1].i_df.if_ext
      s == XFS_B_TO_FSB(lv.offset)
      e == XFS_B_TO_FSBT(lv.offset + lv.len)
  IN /\ pc \in {"free_unmap", "free_zero"}
          => /\ lv.startoffset_fsb = s /\ lv.endoffset_fsb = e
             /\ pc' \in {"free_unmap", "free_zero", "prepare_shift", "idle"}
             /\ pc' = "idle" => ret'.error # OK
             /\ pc' = "prepare_shift" => pc = "free_zero" /\ AllHoles(ext2, s, e)
     /\ pc = "prepare_shift"
          => /\ pc' \in {"collapse_shift", "idle"}
             /\ pc' = "idle" => ret'.error # OK
             /\ AllHoles(ext2, s, e)
     /\ pc = "collapse_shift"
          => /\ pc' \in {"collapse_shift", "idle"}
             /\ PhysOf(ext2) = PhysOf(ext)
             /\ StayedOrMoved(ext, ext2, lv.shift_fsb)
             /\ pc' = "collapse_shift"
                  => /\ ~mp'.shutdown
                     /\ Cardinality(RecordsFrom(ext2, lv'.next_fsb))
                          < Cardinality(RecordsFrom(ext, lv.next_fsb))
     /\ pc' = "collapse_shift" => pc \in {"prepare_shift", "collapse_shift"}

\* C28: xfs_collapse_file_space deallocates exactly [offset, offset + len),
\* then prepares, then shifts, each only after the one before succeeded;
\* after every shift step that is not the last the deferred work is
\* finished and the transaction rolled, and the loop goes on; a failure in
\* the preparation or in a shift step returns the error with the range
\* still deallocated and every record the earlier steps moved still where
\* they put it.
C28_CollapseSteps == [][lv.op = "collapse" => CollapseStep]_vars

\* Block b of atcall is found in ext of atcall shifted down by shift.
MovedDown(atcall, ext, b, shift) ==
  /\ IsReal(MapAt(atcall, b)) /\ b >= shift
  /\ MapAt(ext, b - shift) = MapAt(atcall, b)
  /\ MapAt(ext, b) # MapAt(atcall, b)

\* A collapse that failed after two records had moved, the first of them
\* in a transaction that was rolled: the range it freed and the records it
\* moved are as the steps left them.
C28_Witness ==
  /\ h.n = 1 /\ Returned("collapse") /\ ret.error = "EIO"
  /\ RealBlocks(inodes[1].i_df.if_ext) < RealBlocks(h.pre[1].i_df.if_ext)
  /\ Len(inodes[1].i_df.if_ext) >= 2
  /\ \E b \in AllBlocks, c \in AllBlocks :
       /\ b # c
       /\ MovedDown(h.pre[1].i_df.if_ext, inodes[1].i_df.if_ext, b, XFS_B_TO_FSB(ret.len))
       /\ MovedDown(h.pre[1].i_df.if_ext, inodes[1].i_df.if_ext, c, XFS_B_TO_FSB(ret.len))

\* A collapse whose preparation failed: the range is deallocated, no record
\* has moved.
CollapsePrepareFailed ==
  /\ h.n = 1 /\ Returned("collapse") /\ ret.error = "ENOSPC"
  /\ RealBlocks(inodes[1].i_df.if_ext) < RealBlocks(h.pre[1].i_df.if_ext)
  /\ \A b \in AllBlocks :
       ~MovedDown(h.pre[1].i_df.if_ext, inodes[1].i_df.if_ext, b, XFS_B_TO_FSB(ret.len))
  /\ inodes[1].i_df.if_ext # << >>

(***************************************************************************)
(* SpecInsert: xfs_insert_file_space on every generated fork, with shifts  *)
(* up to one that no start offset has room for.                            *)
(***************************************************************************)
InsertLens == {1, BlockSize, 2 * BlockSize, (BMBT_STARTOFF_MASK - 1) * BlockSize}

InsertCall ==
  /\ h.n = 0
  /\ \E offset \in Offsets, len \in InsertLens : xfs_insert_file_space(1, offset, len)
  /\ Enter

NextInsert == InsertCall \/ InsertPrepare \/ InsertShift
SpecInsert == InitShift /\ [][NextInsert]_vars

\* The last record of ext starts at or after off and has no room to move
\* shift blocks up.
InsertNoRoom(ext, off, shift) ==
  /\ ext # << >>
  /\ ext[Len(ext)].br_startoff >= off
  /\ ext[Len(ext)].br_startoff + shift > BMBT_STARTOFF_MASK

\* No record of ext holds both block bno - 1 and block bno.
NoStraddle(ext, bno) ==
  \A i \in 1..Len(ext) : ~(ext[i].br_startoff < bno /\ bno < ExtEnd(ext[i]))

InsertStep ==
  LET ext == inodes[1].i_df.if_ext
      ext2 == inodes'[1].i_df.if_ext
  IN /\ (pc = "idle" /\ ret'.op = "insert")
          => /\ pc' = "idle" /\ ret'.error # OK
             /\ inodes' = inodes /\ mp' = mp
     /\ (pc = "idle" /\ lv'.op = "insert")
          => /\ pc' = "prepare_shift" /\ inodes' = inodes /\ mp' = mp
             /\ ~InsertNoRoom(ext, lv'.stop_fsb, lv'.shift_fsb)
     /\ (pc = "prepare_shift" /\ lv.op = "insert")
          => /\ pc' \in {"insert_shift", "idle"}
             /\ pc' = "idle" => ret'.error # OK
             /\ \A b \in AllBlocks :
                  IsReal(MapAt(ext, b)) => MapAt(ext2, b) \in {MapAt(ext, b), Hole}
             /\ pc' = "insert_shift" => NoStraddle(ext2, lv.stop_fsb)
     /\ pc = "insert_shift"
          => /\ pc' \in {"insert_shift", "idle"}
             /\ NoStraddle(ext, lv.stop_fsb)
             /\ PhysOf(ext2) = PhysOf(ext)
             /\ \A b \in AllBlocks :
                  IF b < lv.stop_fsb THEN MapAt(ext2, b) = MapAt(ext, b)
                  ELSE IsReal(MapAt(ext, b))
                         => \/ MapAt(ext2, b) = MapAt(ext, b)
                            \/ MapAt(ext2, b + lv.shift_fsb) = MapAt(ext, b)
             /\ (pc' = "idle" /\ ret'.error = "EFSCORRUPTED") => ext2 = ext

InsertDone ==
  /\ h.n = 1 /\ Returned("insert") /\ ret.error = OK
  /\ Aligned(ret.offset) /\ Aligned(ret.len)

\* On success every block the fork mapped is where it was when it lay
\* below offset, and len higher when it lay at or after offset.
InsertMovedAll ==
  InsertDone =>
    LET pre == h.pre[1].i_df.if_ext
        post == inodes[1].i_df.if_ext
        stop == ret.offset \div BlockSize
        shift == ret.len \div BlockSize
    IN \A b \in AllBlocks :
         MapAt(pre, b) # Hole
           => MapAt(post, IF b < stop THEN b ELSE b + shift) = MapAt(pre, b)

\* The same of the blocks that were real and that the preparation keeps;
\* and the blocks of [offset, offset + len) are holes.
InsertMovedKept ==
  InsertDone =>
    LET pre == h.pre[1]
        post == inodes[1].i_df.if_ext
        stop == ret.offset \div BlockSize
        shift == ret.len \div BlockSize
    IN /\ \A b \in AllBlocks :
            Kept(pre, b)
              => MapAt(post, IF b < stop THEN b ELSE b + shift) = MapAt(pre.i_df.if_ext, b)
       /\ AllHoles(post, stop, stop + shift)

InsertRefused ==
  /\ h.n = 1 /\ Returned("insert") /\ ret.error = "EINVAL"
  /\ inodes = h.pre /\ ~mp.shutdown
  /\ InsertNoRoom(inodes[1].i_df.if_ext, XFS_B_TO_FSB(ret.offset), XFS_B_TO_FSB(ret.len))

(***************************************************************************)
(* The structural fork swap on files that carry attribute forks and        *)
(* speculative preallocation.  xfs_swap_extents runs in two steps here,    *)
(* the flush of the two files (lines 1699-1710) and the rest of the call,  *)
(* so that the inodes as xfs_swap_extent_forks finds them are a state.     *)
(***************************************************************************)
\* An attribute fork: none, inline, in extent format with no record or
\* with one, or with an index block over two records.
ForkAttrs == {"none", "local", "empty", "extents", "btree"}
ForkAttr(a, base) ==
  [present |-> a # "none",
   if_format |-> IF a = "local" THEN XFS_DINODE_FMT_LOCAL
                 ELSE IF a = "btree" THEN XFS_DINODE_FMT_BTREE
                 ELSE XFS_DINODE_FMT_EXTENTS,
   if_ext |-> IF a = "extents" THEN <<Ext(0, base, 1, XFS_EXT_NORM)>>
              ELSE IF a = "btree"
              THEN <<Ext(0, base, 1, XFS_EXT_NORM), Ext(2, base + 1, 1, XFS_EXT_NORM)>>
              ELSE << >>,
   btblocks |-> IF a = "btree" THEN 1 ELSE 0]

\* The blocks the attribute fork of ip occupies.
AttrBlocks(ip) ==
  IF ip.i_af.present THEN RealBlocks(ip.i_af.if_ext) + ip.i_af.btblocks ELSE 0

\* i_nblocks of ip is what the data fork df and ip's own attribute fork hold.
Balanced(ip, df) == ip.i_nblocks = RealBlocks(df.if_ext) + AttrBlocks(ip)

\* A file with the data records ext and the attribute fork af; extra is
\* what i_nblocks counts beyond the two forks.
ForkInode(ext, af, owner, extra) ==
  LET ip == [MkInode(ext, SwapSize) EXCEPT !.i_df.if_owner = owner, !.i_af = af]
  IN [ip EXCEPT !.i_nblocks = RealBlocks(ext) + AttrBlocks(ip) + extra]

\* The attribute forks of the target and of the donor, and extra.
ForkCases ==
  { <<"none", "none", 0>>, <<"extents", "none", 0>>, <<"none", "extents", 0>>,
    <<"btree", "extents", 0>>, <<"local", "btree", 0>>, <<"empty", "local", 0>>,
    <<"extents", "btree", 1>> }

InitForks ==
  /\ \E c \in ForkCases :
       \E f \in Forks({"H", "N", "D"}, 0), g \in Forks({"H", "N", "D"}, MaxFsb) :
         inodes = [i \in Ino |->
                     IF i = 1 THEN ForkInode(f, ForkAttr(c[1], 2 * MaxFsb), 1, c[3])
                     ELSE ForkInode(g, ForkAttr(c[2], 2 * MaxFsb + 2), 2, 0)]
  /\ mp = MkMount
  /\ pc = "idle"
  /\ lv = NoLv
  /\ ret = NoRet
  /\ h = NoHist
  /\ out = NoOut

\* xfs_swap_extents(1, 2, sxp) as far as the flush; both files are regular
\* files on the data device.
ForksFlush ==
  /\ pc = "idle" /\ h.n = 0 /\ ret.op = "none"
  /\ UNCHANGED <<h, out>>
  /\ LET l == swap_locals(1, 2, [sx_offset |-> 0, sx_length |-> SwapSize, sx_stat |-> 0])
     IN \E r \in swap_flush(inodes[1], inodes[2], mp, Used) :
          IF r.error # OK THEN SwapReturn(l, 1, 2, r.ip, r.tip, r.error, FALSE)
          ELSE /\ inodes' = [inodes EXCEPT ![1] = r.ip, ![2] = r.tip]
               /\ pc' = "swap_flushed"
               /\ lv' = l
               /\ UNCHANGED <<mp, ret>>

\* The rest of the call.
ForksSwap ==
  /\ pc = "swap_flushed"
  /\ UNCHANGED out
  /\ swap_flushed(lv, lv.ip, lv.tip,
                  [error |-> OK, ip |-> inodes[lv.ip], tip |-> inodes[lv.tip]],
                  [sx_offset |-> lv.offset, sx_length |-> lv.len, sx_stat |-> lv.sx_stat])
  /\ Enter

NextForks == ForksFlush \/ ForksSwap
SpecForks == InitForks /\ [][NextForks]_vars

\* The forks have changed places: h.pre holds the two inodes as the flush
\* left them.
ForksDone == Returned("swap") /\ ret.error = OK /\ h.n = 1

\* The block counts after the swap: each file's count is the data fork it
\* received plus its own attribute fork, and the sum of the two is as it was.
ForkSwapBlocks ==
  LET pre == h.pre
      ip == inodes[ret.ip]
      tip == inodes[ret.tip]
  IN /\ ip.i_df.if_ext = pre[ret.tip].i_df.if_ext
     /\ tip.i_df.if_ext = pre[ret.ip].i_df.if_ext
     /\ ip.i_af = pre[ret.ip].i_af /\ tip.i_af = pre[ret.tip].i_af
     /\ (Balanced(pre[ret.ip], pre[ret.ip].i_df) /\ Balanced(pre[ret.tip], pre[ret.tip].i_df)
           => /\ Balanced(ip, pre[ret.tip].i_df)
              /\ Balanced(tip, pre[ret.ip].i_df))
     /\ ip.i_nblocks + tip.i_nblocks = pre[ret.ip].i_nblocks + pre[ret.tip].i_nblocks

\* The target's delayed-block count goes to the donor, the target's is zero.
ForkSwapDelayedMoved ==
  /\ inodes[ret.tip].i_delayed_blks = h.pre[ret.ip].i_delayed_blks
  /\ inodes[ret.ip].i_delayed_blks = 0

\* The delayed-block counts of the two files add up to what they did.
ForkSwapDelayedTotal ==
  inodes[ret.ip].i_delayed_blks + inodes[ret.tip].i_delayed_blks
    = h.pre[ret.ip].i_delayed_blks + h.pre[ret.tip].i_delayed_blks

(***************************************************************************)
(* C30: the structural fork swap conserves block accounting: if before     *)
(* the swap each file's block count equals its data-fork blocks plus its   *)
(* own attribute-fork blocks, the same holds after it for each file with   *)
(* the data fork it received, and the sum of the two block counts is       *)
(* unchanged; the target's delayed-block count is moved to the donor and   *)
(* the target's becomes zero, so the delayed-block counts of the pair add  *)
(* up to what they did before.                                             *)
(***************************************************************************)
C30_ForkSwapAccounting ==
  ForksDone => ForkSwapBlocks /\ ForkSwapDelayedMoved /\ ForkSwapDelayedTotal

\* What of C30 the code keeps: everything but the total of the delayed
\* counts, which it keeps when the donor came with none.
ForkSwapKept ==
  ForksDone =>
    /\ ForkSwapBlocks /\ ForkSwapDelayedMoved
    /\ (h.pre[ret.tip].i_delayed_blks = 0 => ForkSwapDelayedTotal)

\* The attribute forks of both files hold blocks, and the target came with
\* a delayed allocation past end of file.
ForkSwapCounted ==
  /\ ForksDone
  /\ attr_fork_counted(h.pre[ret.ip]) /\ attr_fork_counted(h.pre[ret.tip])
  /\ Balanced(h.pre[ret.ip], h.pre[ret.ip].i_df)
  /\ RealBlocks(h.pre[ret.ip].i_df.if_ext) # RealBlocks(h.pre[ret.tip].i_df.if_ext)
  /\ h.pre[ret.ip].i_delayed_blks > 0

\* A block count that was off before the swap.
ForkSwapUnbalanced == ForksDone /\ ~Balanced(h.pre[ret.ip], h.pre[ret.ip].i_df)

\* The donor came out of the flush with a delayed allocation past end of
\* file; after the swap the target maps it and counts no delayed block.
ForkSwapDonorDelayed ==
  /\ ForksDone
  /\ h.pre[ret.tip].i_delayed_blks > 0
  /\ DelayedBlocks(inodes[ret.ip].i_df.if_ext) > 0
  /\ inodes[ret.ip].i_delayed_blks = 0

(***************************************************************************)
(* The format check of the structural swap.  The two files differ in the   *)
(* room their data fork has: an inode without attribute fork has the whole *)
(* literal area, one with an attribute fork what lies below the fork       *)
(* offset.  Every file starts with a data fork in the format its own       *)
(* record count calls for.                                                 *)
(***************************************************************************)
\* XFS_LITINO(mp), counted in records.
FormatLitino == MaxFsb - 1

\* The data fork df is valid in the inode ip.
ValidFormat(df, ip) ==
  IF df.if_format = XFS_DINODE_FMT_EXTENTS
  THEN if_nextents(df.if_ext) <= XFS_IFORK_MAXEXT(ip)
  ELSE /\ df.if_format = XFS_DINODE_FMT_BTREE
       /\ if_nextents(df.if_ext) > XFS_IFORK_MAXEXT(ip)
       /\ XFS_BMAP_BMDR_SPACE(df.if_broot) <= ip.i_dsize

\* A file with the records ext whose data fork area holds dsize records and
\* whose index root, if it has an index, takes the room of broot records.
FormatInode(ext, dsize, broot, owner) ==
  LET bt == if_nextents(ext) > dsize
  IN [MkInode(ext, SwapSize) EXCEPT
        !.i_dsize = dsize,
        !.i_af.present = dsize < FormatLitino,
        !.i_df.if_owner = owner,
        !.i_df.if_format = IF bt THEN XFS_DINODE_FMT_BTREE ELSE XFS_DINODE_FMT_EXTENTS,
        !.i_df.if_broot = IF bt THEN broot ELSE 0]

InitFormat ==
  /\ \E f \in Forks({"H", "N", "U"}, 0), g \in Forks({"H", "N", "U"}, MaxFsb) :
       \E d1 \in 1..FormatLitino, d2 \in 1..FormatLitino :
         \E b1 \in 1..d1, b2 \in 1..d2 :
           /\ (if_nextents(f) <= d1 => b1 = 1)
           /\ (if_nextents(g) <= d2 => b2 = 1)
           /\ inodes = [i \in Ino |-> IF i = 1 THEN FormatInode(f, d1, b1, 1)
                                       ELSE FormatInode(g, d2, b2, 2)]
  /\ mp = MkMount
  /\ pc = "idle"
  /\ lv = NoLv
  /\ ret = NoRet
  /\ h = NoHist
  /\ out = NoOut

FormatCall ==
  /\ h.n = 0
  /\ xfs_swap_extents(1, 2, [sx_offset |-> 0, sx_length |-> SwapSize, sx_stat |-> 0])
  /\ Enter

NextFormat == FormatCall
SpecFormat == InitFormat /\ [][NextFormat]_vars

(***************************************************************************)
(* C31: with reverse mapping disabled, whenever                            *)
(* xfs_swap_extents_check_format accepts a pair, the data fork each file   *)
(* holds after the swap is in a format valid for that file: a fork in      *)
(* extent format has no more records than the receiving file's data fork   *)
(* area holds, a fork in btree format has more records than that and a     *)
(* root that fits in the receiving file's data fork area; in both          *)
(* directions.                                                             *)
(***************************************************************************)
C31_SwapFormatValid ==
  /\ (~mp.rmapbt /\ xfs_swap_extents_check_format(inodes[1], inodes[2], mp) = OK
        => /\ ValidFormat(inodes[2].i_df, inodes[1])
           /\ ValidFormat(inodes[1].i_df, inodes[2]))
  /\ (SwapDone /\ ~mp.rmapbt
        => /\ inodes[ret.ip].i_df.if_ext = h.pre[ret.tip].i_df.if_ext
           /\ inodes[ret.tip].i_df.if_ext = h.pre[ret.ip].i_df.if_ext
           /\ ValidFormat(inodes[ret.ip].i_df, inodes[ret.ip])
           /\ ValidFormat(inodes[ret.tip].i_df, inodes[ret.tip]))

\* Two index forks of different record counts have changed places between
\* files with attribute forks.
C31_Witness ==
  /\ SwapDone /\ ~mp.rmapbt
  /\ inodes[ret.ip].i_df.if_format = XFS_DINODE_FMT_BTREE
  /\ inodes[ret.tip].i_df.if_format = XFS_DINODE_FMT_BTREE
  /\ if_nextents(inodes[ret.ip].i_df.if_ext) < if_nextents(inodes[ret.tip].i_df.if_ext)
  /\ xfs_inode_has_attr_fork(inodes[ret.ip]) /\ xfs_inode_has_attr_fork(inodes[ret.tip])

\* An index fork went to a file that keeps its extent-format fork's place.
FormatBtreeForExtents ==
  /\ SwapDone
  /\ h.pre[ret.ip].i_df.if_format = XFS_DINODE_FMT_BTREE
  /\ h.pre[ret.tip].i_df.if_format = XFS_DINODE_FMT_EXTENTS

\* The check refused an index fork for its root alone.
FormatRootRefused ==
  /\ Returned("swap") /\ ret.error = "EINVAL"
  /\ inodes[2].i_df.if_format = XFS_DINODE_FMT_BTREE
  /\ swap_btree_misfit_root(inodes[2].i_df, inodes[1])
  /\ if_nextents(inodes[2].i_df.if_ext) > XFS_IFORK_MAXEXT(inodes[1])

(***************************************************************************)
(* The owner change after the structural swap, an attempt at a time.       *)
(* lv.scans lists the scans still to run, out.log the transaction events   *)
(* of the scans so far, in program order.                                  *)
(***************************************************************************)
OwnerEv(ev, ip, res) == [ev |-> ev, ip |-> ip, res |-> res]

\* Lines 1835-1850: the scan of ip's fork when src_log_flags has
\* XFS_ILOG_DOWNER, then that of tip's when target_log_flags has it.
owner_scans(ino, tino, f) ==
  (IF "XFS_ILOG_DOWNER" \in f.src_log_flags THEN <<[ip |-> ino, tmpip |-> tino]>> ELSE << >>)
    \o (IF "XFS_ILOG_DOWNER" \in f.target_log_flags
        THEN <<[ip |-> tino, tmpip |-> ino]>> ELSE << >>)

\* Lines 1641-1648: both inodes are joined to the new transaction and logged.
\* (First a variant that joins and logs the scanned inode alone.)
owner_rejoin_one(ip, tmpip) ==
  << OwnerEv("ijoin", ip, OK), OwnerEv("log", ip, OK) >>
owner_rejoin(ip, tmpip) ==
  << OwnerEv("ijoin", ip, OK), OwnerEv("ijoin", tmpip, OK),
     OwnerEv("log", ip, OK), OwnerEv("log", tmpip, OK) >>

\* xfs_swap_extents as far as the two xfs_trans_log_inode calls of lines
\* 1835-1836.
OwnerStart(l, ino, tino, f) ==
  LET x == swap_flags_cow(f.ip, f.tip, mp)
  IN /\ inodes' = [inodes EXCEPT ![ino] = x.ip, ![tino] = x.tip]
     /\ pc' = "swap_owner"
     /\ lv' = [scans |-> owner_scans(ino, tino, f), tries |-> 0]
                @@ [l EXCEPT !.src_log_flags = f.src_log_flags,
                             !.target_log_flags = f.target_log_flags]
     /\ UNCHANGED <<mp, ret>>

InitOwner ==
  /\ \E f \in Forks({"H", "N"}, 0), g \in Forks({"H", "N"}, MaxFsb) :
       \E d1 \in 1..FormatLitino, d2 \in 1..FormatLitino :
         inodes = [i \in Ino |-> IF i = 1 THEN FormatInode(f, d1, 1, 1)
                                 ELSE FormatInode(g, d2, 1, 2)]
  /\ \E v3 \in BOOLEAN : mp = [MkMount EXCEPT !.v3inodes = v3]
  /\ pc = "idle"
  /\ lv = NoLv
  /\ ret = NoRet
  /\ h = NoHist
  /\ out = [log |-> << >>]

OwnerCall ==
  /\ h.n = 0
  /\ xfs_swap_extents_to(1, 2, [sx_offset |-> 0, sx_length |-> SwapSize, sx_stat |-> 0],
                         OwnerStart)
  /\ Enter

\* One pass of the loop of xfs_swap_change_owner as far as the scan
\* (lines 1629-1634): xfs_bmbt_change_owner succeeds, meets a buffer it
\* cannot order (-EAGAIN), or fails.
OwnerScan ==
  /\ pc = "swap_owner" /\ lv.scans # << >>
  /\ UNCHANGED h
  /\ LET sc == Head(lv.scans)
     IN \/ /\ inodes' = [inodes EXCEPT ![sc.ip].i_df.if_owner = sc.ip]
           /\ out' = [log |-> Append(out.log, OwnerEv("scan", sc.ip, OK))]
           /\ lv' = [lv EXCEPT !.scans = Tail(@), !.tries = 0]
           /\ UNCHANGED <<mp, pc, ret>>
        \/ /\ lv.tries < MaxCalls
           /\ out' = [log |-> Append(out.log, OwnerEv("scan", sc.ip, "EAGAIN"))]
           /\ lv' = [lv EXCEPT !.tries = @ + 1]
           /\ pc' = "swap_owner_roll"
           /\ UNCHANGED <<inodes, mp, ret>>
        \/ /\ out' = [log |-> out.log \o << OwnerEv("scan", sc.ip, "EIO"),
                                           OwnerEv("cancel", 0, OK) >>]
           /\ SwapReturn(lv, lv.ip, lv.tip, inodes[lv.ip], inodes[lv.tip], "EIO", TRUE)

\* The rest of the pass (lines 1636-1648): the roll, and after it the
\* inodes joined and logged again.
OwnerRoll ==
  /\ pc = "swap_owner_roll"
  /\ UNCHANGED h
  /\ LET sc == Head(lv.scans)
     IN \/ /\ out' = [log |-> Append(out.log, OwnerEv("roll", 0, OK))
                                \o owner_rejoin(sc.ip, sc.tmpip)]
           /\ pc' = "swap_owner"
           /\ UNCHANGED <<inodes, mp, lv, ret>>
        \/ /\ out' = [log |-> out.log \o << OwnerEv("roll", 0, "EIO"),
                                           OwnerEv("cancel", 0, OK) >>]
           /\ SwapReturn(lv, lv.ip, lv.tip, inodes[lv.ip], inodes[lv.tip], "EIO", TRUE)

\* Lines 1856-1862: no scan is left, the transaction commits.
OwnerCommit ==
  /\ pc = "swap_owner" /\ lv.scans = << >>
  /\ UNCHANGED h
  /\ \E error \in {OK, "EIO"} :
       /\ out' = [log |-> Append(out.log, OwnerEv("commit", 0, error))]
       /\ SwapReturn(lv, lv.ip, lv.tip, inodes[lv.ip], inodes[lv.tip], error, error # OK)

NextOwner == OwnerCall \/ OwnerScan \/ OwnerRoll \/ OwnerCommit
SpecOwner == InitOwner /\ [][NextOwner]_vars

\* The call, an attempt at a time, ends as the call in one step does.
OwnerAsCalled ==
  (Returned("swap") /\ out.log # << >>) =>
    \E q \in swap_tail(xfs_swap_extent_forks(h.pre[1], h.pre[2], mp), 1, 2, mp) :
      q.error = ret.error /\ q.ip = inodes[1] /\ q.tip = inodes[2]

\* The scans scheduled when the forks have changed places: the files that
\* now hold an index.
OwnerScheduled ==
  (pc = "swap_owner" /\ out.log = << >>) =>
    \A i \in Ino :
      (\E k \in 1..Len(lv.scans) : lv.scans[k].ip = i)
        <=> (mp.v3inodes /\ inodes[i].i_df.if_format = XFS_DINODE_FMT_BTREE)

\* Event k of the log is a scan of i with the result res.
IsScan(log, k, i, res) == log[k].ev = "scan" /\ log[k].ip = i /\ log[k].res = res

\* The log of the scans: a scan that follows another of the same file
\* follows an -EAGAIN, a roll and the join and the logging of both files;
\* a failed scan or a failed roll is followed by the cancel and nothing
\* else; nothing follows a scan that succeeded but the other file's scan
\* or the commit.
OwnerLogOk(log) ==
  \A k \in 1..Len(log) :
    LET e == log[k] IN
    /\ (e.ev = "scan" /\ k > 1) =>
         \/ log[k - 1].ev = "scan" /\ log[k - 1].res = OK /\ log[k - 1].ip # e.ip
         \/ /\ k > 6
            /\ IsScan(log, k - 6, e.ip, "EAGAIN")
            /\ log[k - 5] = OwnerEv("roll", 0, OK)
            /\ log[k - 4].ev = "ijoin" /\ log[k - 3].ev = "ijoin"
            /\ {log[k - 4].ip, log[k - 3].ip} = Ino
            /\ log[k - 2].ev = "log" /\ log[k - 1].ev = "log"
            /\ {log[k - 2].ip, log[k - 1].ip} = Ino
    /\ (e.ev = "scan" /\ e.res = "EAGAIN" /\ k < Len(log)) => log[k + 1].ev = "roll"
    /\ e.ev = "roll" => k > 1 /\ log[k - 1].ev = "scan" /\ log[k - 1].res = "EAGAIN"
    /\ ((e.ev = "scan" /\ e.res \notin {OK, "EAGAIN"}) \/ (e.ev = "roll" /\ e.res # OK))
         => k + 1 = Len(log) /\ log[k + 1].ev = "cancel"
    /\ e.ev = "cancel"
         => /\ k = Len(log) /\ k > 1
            /\ log[k - 1].ev \in {"scan", "roll"} /\ log[k - 1].res \notin {OK, "EAGAIN"}
    /\ e.ev = "commit" => k = Len(log) /\ (k > 1 => log[k - 1].ev = "scan" /\ log[k - 1].res = OK)
    /\ (e.ev = "scan" /\ e.res = OK) =>
         \A j \in (k + 1)..Len(log) : ~(log[j].ev = "scan" /\ log[j].ip = e.ip)

\* The scans that succeeded, in the order of the log.
OwnerScanned(log) == SelectSeq(log, LAMBDA e : e.ev = "scan" /\ e.res = OK)

(***************************************************************************)
(* C32: on a filesystem that stamps owner ids in tree blocks, after the    *)
(* structural swap a file is scheduled for the owner scan exactly when the *)
(* data fork it now holds is in btree format; a scan is repeated after an  *)
(* -EAGAIN only once the transaction is rolled and both files are joined   *)
(* and logged again; it stops at the first success, hard error or failed   *)
(* roll, and on the last two the swap is cancelled.                        *)
(***************************************************************************)
C32_OwnerScans ==
  /\ OwnerScheduled
  /\ OwnerLogOk(out.log)
  /\ (Returned("swap") /\ out.log # << >>) =>
       /\ ret.error = OK =>
            /\ out.log[Len(out.log)] = OwnerEv("commit", 0, OK)
            /\ \A i \in Ino :
                 (mp.v3inodes /\ inodes[i].i_df.if_format = XFS_DINODE_FMT_BTREE)
                   <=> \E k \in 1..Len(out.log) : IsScan(out.log, k, i, OK)
       /\ out.log[Len(out.log)].ev = "cancel" => ret.error # OK

\* Both files hold an index after the swap; the scan of the first met an
\* -EAGAIN twice and the scan of the second once before the commit.
C32_Witness ==
  /\ Returned("swap") /\ ret.error = OK /\ mp.v3inodes
  /\ Len(OwnerScanned(out.log)) = 2
  /\ \E k \in 1..Len(out.log) : IsScan(out.log, k, 2, "EAGAIN")
  /\ Cardinality({k \in 1..Len(out.log) : IsScan(out.log, k, 1, "EAGAIN")}) = 2

\* A roll failed after an -EAGAIN and the swap was cancelled.
OwnerRollFailed ==
  /\ Returned("swap") /\ Len(out.log) > 1
  /\ out.log[Len(out.log) - 1] = OwnerEv("roll", 0, "EIO")

\* Only one of the two files holds an index and only its fork was scanned.
OwnerOneScan ==
  /\ Returned("swap") /\ ret.error = OK /\ mp.v3inodes
  /\ Len(OwnerScanned(out.log)) = 1
  /\ inodes[1].i_df.if_format # inodes[2].i_df.if_format

(***************************************************************************)
(* xfs_swap_extent_rmap, a piece in two steps: the two records are read    *)
(* and cut, the extent counts checked and the four deferred operations     *)
(* queued (lines 1419-1485); then xfs_defer_finish runs them and rolls the *)
(* transaction (lines 1487-1496).  An inode carries nrext64, the large     *)
(* extent counter flag, and the mount whether it allows that flag.         *)
(***************************************************************************)
\* xfs_iext_max_nextents: the records a data fork may have with the small
\* and with the large counter.
IextSmall == MaxFsb + 1
IextLarge == 2 * MaxFsb + 2
xfs_iext_max_nextents(large) == IF large THEN IextLarge ELSE IextSmall

XFS_IEXT_SWAP_RMAP_CNT == 2

xfs_iext_count_may_overflow(ip, nr_to_add) ==
  IF if_nextents(ip.i_df.if_ext) + nr_to_add > xfs_iext_max_nextents(ip.nrext64)
  THEN "EFBIG" ELSE OK

xfs_iext_count_upgrade(ip, m, nr_to_add) ==
  IF ~m.nrext64 \/ ip.nrext64 THEN [error |-> "EFBIG", ip |-> ip]
  ELSE [error |-> OK, ip |-> [ip EXCEPT !.nrext64 = TRUE]]

\* Lines 1455-1475: the two extent count checks of a piece.  ips holds the
\* two inodes, ino is the target and tino the donor; the result is the
\* error and the inodes as the checks leave them.
rmap_count_check(ips, m, checked, upgraded) ==
  IF xfs_iext_count_may_overflow(ips[checked], XFS_IEXT_SWAP_RMAP_CNT) = "EFBIG"
  THEN LET u == xfs_iext_count_upgrade(ips[upgraded], m, XFS_IEXT_SWAP_RMAP_CNT)
       IN [error |-> u.error, ips |-> [ips EXCEPT ![upgraded] = u.ip]]
  ELSE [error |-> OK, ips |-> ips]

rmap_piece_checks(ips, m, ino, tino, uirec, irec) ==
  LET a == IF xfs_bmap_is_real_extent(uirec) THEN rmap_count_check(ips, m, ino, ino)
           ELSE [error |-> OK, ips |-> ips]
  IN IF a.error # OK THEN a
     ELSE IF xfs_bmap_is_real_extent(irec)
     THEN rmap_count_check(a.ips, m, tino, ino)  \* line 1471 upgrades ip
     ELSE a

\* A deferred operation: xfs_bmap_unmap_extent or xfs_bmap_map_extent of
\* the record rec in the inode i.
RmapOp(op, i, rec) == [op |-> op, ip |-> i, rec |-> rec]

\* Lines 1477-1485, in this order.
\* (First a variant that maps before it unmaps.)
rmap_piece_ops_maps_first(ino, tino, uirec, irec) ==
  << RmapOp("map", ino, uirec), RmapOp("map", tino, irec),
     RmapOp("unmap", tino, uirec), RmapOp("unmap", ino, irec) >>
rmap_piece_ops(ino, tino, uirec, irec) ==
  << RmapOp("unmap", tino, uirec), RmapOp("unmap", ino, irec),
     RmapOp("map", ino, uirec), RmapOp("map", tino, irec) >>

\* One deferred operation done (xfs_bmap_finish_one): only real records
\* are mapped or unmapped.
rmap_finish_one(q, o) ==
  IF ~xfs_bmap_is_real_extent(o.rec) THEN q
  ELSE IF o.op = "unmap"
  THEN LET i == xfs_iext_lookup_extent(q.i_df.if_ext, o.rec.br_startoff)
       IN IF i = 0 \/ q.i_df.if_ext[i].br_startoff >= ExtEnd(o.rec) THEN q
          ELSE [q EXCEPT !.i_df.if_ext = DelExtent(@, i, o.rec.br_startoff, ExtEnd(o.rec)),
                         !.i_nblocks = @ - o.rec.br_blockcount]
  ELSE [q EXCEPT !.i_df.if_ext = AddExtentHole(@, o.rec),
                 !.i_nblocks = @ + o.rec.br_blockcount]

RECURSIVE rmap_defer_finish(_, _)
rmap_defer_finish(ips, ops) ==
  IF ops = << >> THEN [i \in DOMAIN ips |-> FixFormat(ips[i])]
  ELSE rmap_defer_finish([ips EXCEPT ![Head(ops).ip] = rmap_finish_one(@, Head(ops))],
                         Tail(ops))

RmapLocals(l) == [k \in DOMAIN NoLv |-> l[k]]

RmapSizes == {SwapSize, MaxFsb * BlockSize}

InitRmap ==
  /\ \E f \in Forks({"H", "N", "U"}, 0), g \in Forks({"H", "N"}, MaxFsb), size \in RmapSizes :
       \E n \in BOOLEAN, n1 \in BOOLEAN, n2 \in BOOLEAN :
         \* only a mount with large extent counters has inodes with the flag
         /\ (n1 \/ n2) => n
         /\ inodes = [i \in Ino |->
                        IF i = 1
                        THEN [nrext64 |-> n1]
                               @@ [MkInode(f, size) EXCEPT !.i_df.if_owner = 1]
                        ELSE [nrext64 |-> n2]
                               @@ [MkInode(g, size) EXCEPT !.i_df.if_owner = 2]]
         /\ mp = [nrext64 |-> n] @@ SwapMount("rmapbt")
  /\ pc = "idle"
  /\ lv = NoLv
  /\ ret = NoRet
  /\ h = NoHist
  /\ out = NoOut

RmapCall ==
  /\ h.n = 0
  /\ xfs_swap_extents(1, 2, [sx_offset |-> 0, sx_length |-> inodes[1].i_size, sx_stat |-> 0])
  /\ Enter

\* The head of a piece, or the end of the loop.
RmapRead ==
  /\ pc = "swap_rmap"
  /\ UNCHANGED <<h, out>>
  /\ LET ip == inodes[lv.ip]
         tip == inodes[lv.tip]
         tirec == xfs_bmapi_read(tip, mp, lv.offset_fsb, lv.count_fsb).imap
         irec == xfs_bmapi_read(ip, mp, tirec.br_startoff, tirec.br_blockcount).imap
         rlen == Min(tirec.br_blockcount, irec.br_blockcount)
         uirec == [tirec EXCEPT !.br_blockcount = rlen]
         c == rmap_piece_checks(inodes, mp, lv.ip, lv.tip, uirec, irec)
     IN IF lv.count_fsb = 0
        THEN SwapFinish(lv, lv.ip, lv.tip,
                        [ip |-> ip, tip |-> rmap_restore(tip, lv.tip_flags2),
                         src_log_flags |-> lv.src_log_flags,
                         target_log_flags |-> lv.target_log_flags])
        ELSE IF c.error # OK
        THEN SwapReturn(lv, lv.ip, lv.tip, c.ips[lv.ip],
                        rmap_restore(c.ips[lv.tip], lv.tip_flags2), c.error, FALSE)
        ELSE /\ inodes' = c.ips
             /\ pc' = "swap_rmap_finish"
             /\ lv' = [deferred |-> rmap_piece_ops(lv.ip, lv.tip, uirec, irec),
                       rlen |-> rlen] @@ lv
             /\ UNCHANGED <<mp, ret>>

\* xfs_defer_finish and the advance of lines 1491-1501.
RmapFinish ==
  /\ pc = "swap_rmap_finish"
  /\ UNCHANGED <<h, out>>
  /\ LET done == rmap_defer_finish(inodes, lv.deferred)
     IN \/ SwapReturn(RmapLocals(lv), lv.ip, lv.tip, done[lv.ip],
                      rmap_restore(done[lv.tip], lv.tip_flags2), "EIO", TRUE)
        \/ /\ inodes' = done
           /\ pc' = "swap_rmap"
           /\ lv' = [RmapLocals(lv) EXCEPT !.offset_fsb = @ + lv.rlen,
                                           !.count_fsb = @ - lv.rlen]
           /\ UNCHANGED <<mp, ret>>

NextRmap == RmapCall \/ RmapRead \/ RmapFinish
SpecRmap == InitRmap /\ [][NextRmap]_vars

\* The remap loop is running: lv holds its offset_fsb and count_fsb.
RmapRunning == pc \in {"swap_rmap", "swap_rmap_finish"}

\* The blocks lo .. hi-1 of the files a and b map what those of c and d do.
RmapSame(a, b, c, d, lo, hi) ==
  \A k \in {x \in AllBlocks : lo <= x /\ x < hi} :
    /\ MapAt(a.i_df.if_ext, k) = MapAt(c.i_df.if_ext, k)
    /\ MapAt(b.i_df.if_ext, k) = MapAt(d.i_df.if_ext, k)

\* The record rec is what the file q maps at the blocks of rec.
RmapRecOf(q, rec) ==
  \A k \in 0..(rec.br_blockcount - 1) :
    MapAt(q.i_df.if_ext, rec.br_startoff + k)
      = IF rec.br_startblock = HOLESTARTBLOCK THEN Hole
        ELSE [blk |-> rec.br_startblock + k, st |-> rec.br_state]

\* The step-wise piece does what the piece in one step does.
RmapAsPiece ==
  [][(pc = "swap_rmap_finish" /\ pc' = "swap_rmap") =>
       LET r == swap_rmap_piece(inodes[lv.ip], inodes[lv.tip], mp,
                                lv.offset_fsb, lv.count_fsb)
       IN inodes'[lv.ip] = r.ip /\ inodes'[lv.tip] = r.tip /\ lv.rlen = r.rlen]_vars

\* Between the pieces: the pieces so far cover [0, offset_fsb), the rest
\* up to ceil(size / blocksize) is to come; the blocks below offset_fsb are
\* exchanged and the others are where they were; nothing is deferred when
\* a piece is read, and when the operations of a piece are queued they are
\* the unmapping of one record of each file and the mapping of each in the
\* other file, both records with the start offset_fsb and one length.
RmapInv ==
  RmapRunning =>
    LET ip == inodes[lv.ip]
        tip == inodes[lv.tip]
        end_fsb == XFS_B_TO_FSB(ip.i_size)
    IN /\ lv.offset_fsb >= 0 /\ lv.count_fsb >= 0
       /\ lv.offset_fsb + lv.count_fsb = end_fsb
       /\ RmapSame(ip, tip, h.pre[lv.tip], h.pre[lv.ip], 0, lv.offset_fsb)
       /\ RmapSame(ip, tip, h.pre[lv.ip], h.pre[lv.tip], lv.offset_fsb, MaxFileoff)
       /\ pc = "swap_rmap" => "deferred" \notin DOMAIN lv
       /\ pc = "swap_rmap_finish" =>
            LET d == lv.deferred IN
            /\ Len(d) = 4
            /\ d[1].op = "unmap" /\ d[1].ip = lv.tip
            /\ d[2].op = "unmap" /\ d[2].ip = lv.ip
            /\ d[3] = RmapOp("map", lv.ip, d[1].rec)
            /\ d[4] = RmapOp("map", lv.tip, d[2].rec)
            /\ d[1].rec.br_startoff = lv.offset_fsb /\ d[2].rec.br_startoff = lv.offset_fsb
            /\ d[1].rec.br_blockcount = lv.rlen /\ d[2].rec.br_blockcount = lv.rlen
            /\ lv.rlen > 0 /\ lv.rlen <= lv.count_fsb
            /\ RmapRecOf(tip, d[1].rec) /\ RmapRecOf(ip, d[2].rec)

\* A step of the loop: a finished piece has exchanged its blocks and no
\* others and the loop goes on behind it; a failure returns with the
\* blocks of the earlier pieces exchanged.
RmapStep ==
  RmapRunning =>
    LET ip == inodes[lv.ip]
        tip == inodes[lv.tip]
        ip2 == inodes'[lv.ip]
        tip2 == inodes'[lv.tip]
    IN /\ (pc = "swap_rmap_finish" /\ pc' = "swap_rmap") =>
            /\ lv'.offset_fsb = lv.offset_fsb + lv.rlen
            /\ lv'.count_fsb = lv.count_fsb - lv.rlen
            /\ RmapSame(ip2, tip2, tip, ip, lv.offset_fsb, lv.offset_fsb + lv.rlen)
            /\ RmapSame(ip2, tip2, ip, tip, 0, lv.offset_fsb)
            /\ RmapSame(ip2, tip2, ip, tip, lv.offset_fsb + lv.rlen, MaxFileoff)
       /\ (pc = "swap_rmap" /\ pc' = "swap_rmap_finish") =>
            RmapSame(ip2, tip2, ip, tip, 0, MaxFileoff)
       /\ (pc' = "idle" /\ ret'.error # OK) =>
            /\ RmapSame(ip2, tip2, h.pre[lv.tip], h.pre[lv.ip], 0, lv.offset_fsb)
            /\ pc = "swap_rmap" => RmapSame(ip2, tip2, ip, tip, 0, MaxFileoff)
       /\ (pc' = "idle" /\ ret'.error = OK) => pc = "swap_rmap" /\ lv.count_fsb = 0

(***************************************************************************)
(* C33: in the reverse-map-safe remap the pieces are contiguous, do not    *)
(* overlap and cover exactly the blocks [0, ceil(target size / blocksize)); *)
(* for each piece the donor's record and the target's record are cut to    *)
(* the same start and the same length, that range is unmapped from both    *)
(* files and then mapped cross-wise, and the deferred operations of the    *)
(* piece are finished before the next piece is read; a failure returns at  *)
(* once with the earlier pieces exchanged.                                 *)
(***************************************************************************)
C33_RmapPieces == [][RmapStep]_vars /\ []RmapInv

\* Two pieces are done and a third is queued, real blocks on both sides.
C33_Witness ==
  /\ pc = "swap_rmap_finish"
  /\ lv.offset_fsb > lv.rlen
  /\ xfs_bmap_is_real_extent(lv.deferred[1].rec)
  /\ xfs_bmap_is_real_extent(lv.deferred[2].rec)
  /\ \E b \in AllBlocks :
       /\ b < lv.offset_fsb
       /\ IsReal(MapAt(inodes[lv.ip].i_df.if_ext, b))
       /\ MapAt(inodes[lv.ip].i_df.if_ext, b) # MapAt(h.pre[lv.ip].i_df.if_ext, b)

\* The loop failed after a piece: the blocks of that piece are exchanged
\* and a later block is not.
RmapFailedLate ==
  /\ Returned("swap") /\ ret.error # OK /\ h.n = 1
  /\ IsReal(MapAt(h.pre[2].i_df.if_ext, 0))
  /\ MapAt(inodes[1].i_df.if_ext, 0) = MapAt(h.pre[2].i_df.if_ext, 0)
  /\ \E b \in AllBlocks :
       /\ b < XFS_B_TO_FSB(inodes[1].i_size)
       /\ IsReal(MapAt(h.pre[2].i_df.if_ext, b))
       /\ MapAt(inodes[2].i_df.if_ext, b) = MapAt(h.pre[2].i_df.if_ext, b)

\* The two records of the piece the loop is about to read: the donor's,
\* cut to the target's, and the target's.
RmapPiece ==
  LET tirec == xfs_bmapi_read(inodes[lv.tip], mp, lv.offset_fsb, lv.count_fsb).imap
      irec == xfs_bmapi_read(inodes[lv.ip], mp, tirec.br_startoff, tirec.br_blockcount).imap
  IN [uirec |-> [tirec EXCEPT !.br_blockcount = Min(tirec.br_blockcount, irec.br_blockcount)],
      irec |-> irec]

\* The extent count check of the file x, made because rec is real, says
\* -EFBIG; the file x can still take the large counter.
RmapReports(x, rec) ==
  /\ xfs_bmap_is_real_extent(rec)
  /\ xfs_iext_count_may_overflow(inodes[x], XFS_IEXT_SWAP_RMAP_CNT) = "EFBIG"
RmapCanUpgrade(x) == mp.nrext64 /\ ~inodes[x].nrext64

\* The head of a piece is run.
RmapReading == pc = "swap_rmap" /\ lv.count_fsb > 0

\* The check on the target: the upgrade goes to the target and the piece
\* is remapped.
RmapUpgradeTarget ==
  (RmapReading /\ RmapReports(lv.ip, RmapPiece.uirec) /\ RmapCanUpgrade(lv.ip))
    => /\ inodes'[lv.ip].nrext64
       /\ (~RmapReports(lv.tip, RmapPiece.irec) => pc' = "swap_rmap_finish")

\* The check on the donor, when the check on the target has not failed:
\* the upgrade goes to the donor and the piece is remapped.
RmapUpgradeDonor ==
  (/\ RmapReading
   /\ RmapReports(lv.ip, RmapPiece.uirec) => RmapCanUpgrade(lv.ip)
   /\ RmapReports(lv.tip, RmapPiece.irec) /\ RmapCanUpgrade(lv.tip))
    => inodes'[lv.tip].nrext64 /\ pc' = "swap_rmap_finish"

(***************************************************************************)
(* C34: in the reverse-map-safe remap, whenever the extent count check on  *)
(* a file's data fork says that more capacity is needed, the upgrade is    *)
(* applied to that same file within the transaction and the piece is       *)
(* remapped instead of the swap failing, for the check on the target and   *)
(* for the check on the donor.  (Read with the proviso that the file can   *)
(* be upgraded: the mount has large extent counters and the file does not  *)
(* use them yet.)                                                          *)
(***************************************************************************)
C34_RmapUpgrade == [][RmapUpgradeTarget /\ RmapUpgradeDonor]_vars

\* What the code keeps: the target's half.
RmapUpgradeKept == [][RmapUpgradeTarget]_vars

\* The donor's check said -EFBIG and the target got the large counter; the
\* piece is queued with the donor on the small counter, over its limit.
RmapUpgradedOther ==
  /\ pc = "swap_rmap_finish" /\ h.n = 1
  /\ ~inodes[lv.tip].nrext64
  /\ inodes[lv.ip].nrext64 /\ ~h.pre[lv.ip].nrext64
  /\ xfs_iext_count_may_overflow(inodes[lv.tip], XFS_IEXT_SWAP_RMAP_CNT) = "EFBIG"
  /\ xfs_iext_count_may_overflow(h.pre[lv.ip], XFS_IEXT_SWAP_RMAP_CNT) = OK

\* The donor's check said -EFBIG, the donor could have been upgraded, and
\* the swap failed because the target has the large counter already.
RmapRefusedForOther ==
  /\ Returned("swap") /\ ret.error = "EFBIG"
  /\ mp.nrext64 /\ ~inodes[2].nrext64 /\ inodes[1].nrext64
  /\ xfs_iext_count_may_overflow(inodes[1], XFS_IEXT_SWAP_RMAP_CNT) = OK

\* The target's check said -EFBIG and the target was upgraded.
RmapUpgradedTarget ==
  /\ pc = "swap_rmap_finish" /\ h.n = 1
  /\ inodes[lv.ip].nrext64 /\ ~h.pre[lv.ip].nrext64
  /\ xfs_iext_count_may_overflow(h.pre[lv.ip], XFS_IEXT_SWAP_RMAP_CNT) = "EFBIG"

\* The flags and tags after a successful swap.
SwapFlagsDone ==
  SwapDone =>
    /\ inodes[ret.ip].reflink = h.pre[ret.tip].reflink
    /\ inodes[ret.tip].reflink = h.pre[ret.ip].reflink
    /\ \A i \in {ret.ip, ret.tip} :
         inodes[i].cowblocks_tag <=> xfs_inode_has_cow_data(inodes[i])

\* While the remap of the first call runs the donor carries the flag if
\* either file came with it.
SwapFlagHeld ==
  (pc = "swap_rmap" /\ h.n = 1) =>
    /\ inodes[lv.tip].reflink = (h.pre[lv.tip].reflink \/ h.pre[lv.ip].reflink)
    /\ inodes[lv.ip].reflink = h.pre[lv.ip].reflink

\* The remap fails: both files have the flag they came with.
SwapFlagRestored ==
  (pc = "swap_rmap" /\ h.n = 1 /\ lv.count_fsb > 0 /\ pc' = "idle") =>
    /\ inodes'[lv.tip].reflink = h.pre[lv.tip].reflink
    /\ inodes'[lv.ip].reflink = h.pre[lv.ip].reflink

(***************************************************************************)
(* C35: after a successful xfs_swap_extents, under either algorithm, the   *)
(* reflink flag of each file is the other file's flag at entry, although   *)
(* the remap sets the donor's flag while it runs and puts it back on its   *)
(* success and on its error return; and each file's copy-on-write-blocks   *)
(* tag is set exactly when the staging fork it holds after the swap is not *)
(* empty.                                                                  *)
(***************************************************************************)
C35_SwapFlags == [][SwapFlagRestored]_vars /\ [](SwapFlagsDone /\ SwapFlagHeld)

\* A remap gave the donor the flag of the target, which came with staged
\* blocks and the flag; the donor came without.
C35_Witness ==
  /\ SwapDone /\ mp.rmapbt
  /\ h.pre[ret.ip].reflink /\ ~h.pre[ret.tip].reflink
  /\ inodes[ret.tip].reflink /\ ~inodes[ret.ip].reflink
  /\ inodes[ret.tip].cowblocks_tag /\ ~inodes[ret.ip].cowblocks_tag

\* The remap failed while the donor carried the target's flag.
SwapFlagFailed ==
  /\ Returned("swap") /\ ret.error # OK /\ h.n = 1 /\ mp.rmapbt
  /\ h.pre[ret.ip].reflink /\ ~inodes[ret.tip].reflink
  /\ \E b \in AllBlocks :
       MapAt(inodes[ret.ip].i_df.if_ext, b) # MapAt(h.pre[ret.ip].i_df.if_ext, b)

\* The structural swap exchanged the flags, the donor's set.
SwapFlagForks ==
  /\ SwapDone /\ ~mp.rmapbt
  /\ h.pre[ret.tip].reflink /\ ~h.pre[ret.ip].reflink
  /\ inodes[ret.ip].reflink /\ ~inodes[ret.tip].reflink

(***************************************************************************)
(* xfs_bmap_punch_delalloc_range, a pass of its loop at a time.  lv.icur   *)
(* is the cursor, the index of the record got; lv.startoffset_fsb and      *)
(* lv.endoffset_fsb are start_fsb and end_fsb.                             *)
(***************************************************************************)
\* Line 612: the part of got inside the range.
\* (First a variant that takes the whole record.)
punch_trim_whole(got, start_fsb, end_fsb) == got
punch_trim(got, start_fsb, end_fsb) == xfs_trim_extent(got, start_fsb, end_fsb - start_fsb)

\* xfs_bmap_del_extent_delay(ip, XFS_DATA_FORK, &icur, &got, &del): the
\* records without the blocks of del, and the cursor as the primitive
\* leaves it: on the record before a record deleted whole, on what is left
\* of a record cut at one end, on the right half of a record cut in two.
punch_del_extent_delay(ip, icur, del) ==
  LET ext == ip.i_df.if_ext
      got == ext[icur]
      left == got.br_startoff < del.br_startoff
      right == ExtEnd(del) < ExtEnd(got)
  IN [ip |-> FixFormat([ip EXCEPT
               !.i_df.if_ext = DelExtent(ext, icur, del.br_startoff, ExtEnd(del)),
               !.i_delayed_blks = @ - del.br_blockcount]),
      icur |-> IF left /\ right THEN icur + 1
               ELSE IF left \/ right THEN icur
               ELSE icur - 1]

\* The positions the cursor may have after a delete: where the primitive
\* leaves it, or pushed forward from there onto a later record.
punch_cursors(r) == {r.icur} \cup {c \in 1..Len(r.ip.i_df.if_ext) : c > r.icur}

PunchArgs == {a \in Offsets \X Offsets : a[1] <= a[2] /\ a[2] > 0}

InitPunch ==
  /\ \E f \in Forks({"H", "N", "U", "D"}, 0) :
       inodes = [i \in Ino |-> MkInode(IF i = 1 THEN f ELSE << >>, SwapSize)]
  /\ mp = MkMount
  /\ pc = "idle"
  /\ lv = NoLv
  /\ ret = NoRet
  /\ h = NoHist
  /\ out = NoOut

\* Lines 598-608: the range in blocks and the last record that starts
\* before its end, which becomes the end of that record if the record
\* ends before it.
PunchCall ==
  /\ pc = "idle" /\ h.n = 0
  /\ UNCHANGED <<inodes, mp, out>>
  /\ \E a \in PunchArgs :
       LET ext == inodes[1].i_df.if_ext
           start_fsb == XFS_B_TO_FSBT(a[1])
           end_fsb == XFS_B_TO_FSB(a[2])
           i == xfs_iext_lookup_extent_before(ext, end_fsb)
           l == [NoLv EXCEPT !.op = "punch", !.ip = 1, !.offset = a[1], !.len = a[2],
                             !.startoffset_fsb = start_fsb,
                             !.endoffset_fsb = IF i # 0 /\ ExtEnd(ext[i]) < end_fsb
                                               THEN ExtEnd(ext[i]) ELSE end_fsb]
       IN IF i = 0 THEN Return(l, OK)
          ELSE /\ pc' = "punch_loop"
               /\ lv' = [icur |-> i] @@ l
               /\ UNCHANGED ret
  /\ Enter

\* Lines 610-630: one pass of the loop.
PunchStep ==
  /\ pc = "punch_loop"
  /\ UNCHANGED <<mp, h, out>>
  /\ LET ip == inodes[lv.ip]
         got == ip.i_df.if_ext[lv.icur]
         del == punch_trim(got, lv.startoffset_fsb, lv.endoffset_fsb)
         r == punch_del_extent_delay(ip, lv.icur, del)
     IN IF ExtEnd(got) <= lv.startoffset_fsb
        THEN Return(lv, OK) /\ UNCHANGED inodes
        ELSE IF del.br_blockcount = 0 \/ ~isnullstartblock(del.br_startblock)
        THEN \* xfs_iext_prev_extent
             /\ UNCHANGED inodes
             /\ IF lv.icur = 1 THEN Return(lv, OK)
                ELSE lv' = [lv EXCEPT !.icur = @ - 1] /\ UNCHANGED <<pc, ret>>
        ELSE \/ \* xfs_bmap_del_extent_delay fails
                Return(lv, "EIO") /\ UNCHANGED inodes
             \/ /\ inodes' = [inodes EXCEPT ![lv.ip] = r.ip]
                /\ \E c \in punch_cursors(r) :
                     \* xfs_iext_get_extent
                     IF c = 0 THEN Return(lv, OK)
                     ELSE lv' = [lv EXCEPT !.icur = c] /\ UNCHANGED <<pc, ret>>

NextPunch == PunchCall \/ PunchStep
SpecPunch == InitPunch /\ [][NextPunch]_vars /\ WF_vars(PunchStep)

PunchDone == Returned("punch") /\ ret.error = OK /\ h.n = 1

\* The loop, a pass at a time, leaves the inode as the call in one step.
PunchAsCalled ==
  PunchDone =>
    inodes[ret.ip] = xfs_bmap_punch_delalloc_range(h.pre[ret.ip], ret.offset, ret.len)

\* The records of ext that are not delayed allocations.
RealRecords(ext) == {ext[i] : i \in {j \in 1..Len(ext) : ~isnullstartblock(ext[j].br_startblock)}}

\* After the call: the delayed blocks of the range are holes, every other
\* block maps what it did, the real records are the same records and the
\* delayed-block count went down by the blocks removed.
PunchExact ==
  PunchDone =>
    LET was == h.pre[ret.ip]
        now == inodes[ret.ip]
        start_fsb == XFS_B_TO_FSBT(ret.offset)
        end_fsb == XFS_B_TO_FSB(ret.len)
    IN /\ \A b \in AllBlocks :
            MapAt(now.i_df.if_ext, b)
              = IF /\ start_fsb <= b /\ b < end_fsb
                   /\ MapAt(was.i_df.if_ext, b).blk = DELAYSTARTBLOCK
                THEN Hole ELSE MapAt(was.i_df.if_ext, b)
       /\ RealRecords(now.i_df.if_ext) = RealRecords(was.i_df.if_ext)
       /\ SortedExtents(now.i_df.if_ext)
       /\ now.i_delayed_blks = DelayedBlocks(now.i_df.if_ext)
       /\ now.i_nblocks = was.i_nblocks

(***************************************************************************)
(* C36: xfs_bmap_punch_delalloc_range(ip, start, end) terminates for every *)
(* extent list and, absent an error of the delete primitive, removes       *)
(* exactly the delayed-allocation blocks of the block range                *)
(* [start_fsb, end_fsb): no delayed block is left in the range, every real *)
(* extent is unchanged and every block outside the range keeps its         *)
(* mapping, whatever position the cursor takes after each delete.          *)
(***************************************************************************)
C36_PunchDelalloc == []PunchExact /\ (pc = "punch_loop" ~> pc = "idle")

\* A delayed block of the range became a hole, a real block of the range
\* and a delayed block outside the range are still there.
C36_Witness ==
  /\ PunchDone
  /\ LET was == h.pre[ret.ip].i_df.if_ext
         now == inodes[ret.ip].i_df.if_ext
         start_fsb == XFS_B_TO_FSBT(ret.offset)
         end_fsb == XFS_B_TO_FSB(ret.len)
     IN /\ \E b \in start_fsb..(end_fsb - 1) :
             MapAt(was, b).blk = DELAYSTARTBLOCK /\ MapAt(now, b) = Hole
        /\ \E b \in start_fsb..(end_fsb - 1) : IsReal(MapAt(now, b))
        /\ \E b \in AllBlocks \ (start_fsb..(end_fsb - 1)) :
             MapAt(now, b).blk = DELAYSTARTBLOCK

\* The cursor was pushed forward by a delete.
PunchPushed ==
  /\ pc = "punch_loop"
  /\ inodes[lv.ip].i_delayed_blks < h.pre[lv.ip].i_delayed_blks
  /\ inodes[lv.ip].i_df.if_ext[lv.icur].br_startoff >= lv.endoffset_fsb

(***************************************************************************)
(* Transactions and locks of the entry points.  Each handler is followed   *)
(* from primitive to primitive; a primitive that can fail does so or not.  *)
(* out.log is the list of the transaction and lock calls made since the    *)
(* handler was entered, lv.n the passes its loop has left to make.         *)
(***************************************************************************)
TxnOps == {"alloc", "unmap", "eof", "collapse", "insert", "swap", "getbmap"}

NoTxn == [op |-> "none", ip |-> 0, tip |-> 0, n |-> 0, error |-> OK, tries |-> 0,
          fork |-> "none", mode |-> "none", rmap |-> FALSE]

TxnEv(ev) == [ev |-> ev, ino |-> 0, field |-> "none", mode |-> "none"]

TxnLock(ev, req) == [ev |-> ev, ino |-> req.ino, field |-> req.field, mode |-> req.mode]

TxnLocks(ev, reqs) == [k \in 1..Len(reqs) |-> TxnLock(ev, reqs[k])]

xfs_ilock(i, mode) == << TxnLock("lock", LockReq(i, "i_lock", mode)) >>

xfs_iunlock(i, field, mode) == << TxnLock("unlock", LockReq(i, field, mode)) >>

\* xfs_trans_alloc; xfs_trans_alloc_inode, which also takes the ILOCK; on
\* failure neither leaves a transaction or a lock behind.
xfs_trans_alloc(ok) == << TxnEv(IF ok THEN "alloc" ELSE "allocfail") >>

xfs_trans_alloc_inode(i, ok) ==
  IF ok THEN << TxnEv("alloc") >> \o xfs_ilock(i, "excl") ELSE << TxnEv("allocfail") >>

\* xfs_trans_commit frees the transaction whether it succeeds or not.
xfs_trans_commit(ok) == << TxnEv(IF ok THEN "commit" ELSE "commitfail") >>

xfs_trans_cancel == << TxnEv("cancel") >>

\* xfs_trans_roll, xfs_defer_finish: the handler goes on with the
\* continuation transaction, which it still owns when the roll fails.
xfs_trans_roll(ok) == << TxnEv(IF ok THEN "roll" ELSE "rollfail") >>

\* An error found while the transaction is open.
txn_error == << TxnEv("error") >>

TxnGo(label, l, evs) ==
  /\ pc' = label
  /\ lv' = l
  /\ out' = [out EXCEPT !.log = @ \o evs]
  /\ UNCHANGED ret

TxnRet(error, evs) ==
  /\ pc' = "idle"
  /\ lv' = NoTxn
  /\ out' = [out EXCEPT !.log = @ \o evs]
  /\ ret' = [NoRet EXCEPT !.op = lv.op, !.ip = lv.ip, !.tip = lv.tip, !.error = error]

TxnErrors == {"EIO", "ENOSPC"}

(* xfs_alloc_file_space *)
\* Lines 915-918, label error.
alloc_out_error(i) == xfs_trans_cancel \o xfs_iunlock(i, "i_lock", "excl")

\* Lines 909-910.
alloc_commit(i, ok) == xfs_trans_commit(ok) \o xfs_iunlock(i, "i_lock", "excl")

TxnAllocSpace ==
  /\ pc \in {"alloc", "alloc_loop"}
  /\ UNCHANGED <<inodes, mp, h>>
  /\ IF pc = "alloc"
     THEN \* shut down, no quota, len <= 0
          \/ \E e \in {"EIO", "EINVAL"} : TxnRet(e, << >>)
          \/ TxnGo("alloc_loop", lv, << >>)
     ELSE IF lv.n = 0 \/ lv.error # OK THEN TxnRet(lv.error, << >>)
     ELSE \/ \* xfs_trans_alloc_inode fails: break
             TxnRet("ENOSPC", xfs_trans_alloc_inode(lv.ip, FALSE))
          \/ \* the extent count check or xfs_bmapi_write fails: goto error
             \E e \in {"EFBIG", "EIO"} :
               TxnRet(e, xfs_trans_alloc_inode(lv.ip, TRUE) \o txn_error
                           \o alloc_out_error(lv.ip))
          \/ \* xfs_bmapi_write maps k blocks, none with -ENOSR, which is
             \* not an error of the call
             \E k \in 0..lv.n, ok \in BOOLEAN :
               /\ k = 0 => lv.tries < MaxCalls
               /\ TxnGo("alloc_loop",
                        [lv EXCEPT !.n = @ - k, !.error = IF ok THEN OK ELSE "EIO",
                                   !.tries = IF k = 0 THEN @ + 1 ELSE @],
                        xfs_trans_alloc_inode(lv.ip, TRUE) \o alloc_commit(lv.ip, ok))

(* xfs_unmap_extent *)
\* Lines 950-956: out_unlock, and out_trans_cancel which goes there.
unmap_out_unlock(i) == xfs_iunlock(i, "i_lock", "excl")

unmap_out_trans_cancel(i) == xfs_trans_cancel \o unmap_out_unlock(i)

\* The calls of one xfs_unmap_extent and what it returns.
unmap_extent_runs(i) ==
  {[error |-> "ENOSPC", evs |-> xfs_trans_alloc_inode(i, FALSE)]}
    \cup {[error |-> e, evs |-> xfs_trans_alloc_inode(i, TRUE) \o txn_error
                                  \o unmap_out_trans_cancel(i)] : e \in {"EFBIG", "EIO"}}
    \cup {[error |-> IF ok THEN OK ELSE "EIO",
           evs |-> xfs_trans_alloc_inode(i, TRUE) \o xfs_trans_commit(ok)
                     \o unmap_out_unlock(i)] : ok \in BOOLEAN}

TxnUnmap ==
  /\ pc = "unmap"
  /\ UNCHANGED <<inodes, mp, h>>
  /\ \E r \in unmap_extent_runs(lv.ip) : TxnRet(r.error, r.evs)

(* xfs_free_eofblocks *)
\* Lines 771-786: after the commit the handler goes to out_unlock whether
\* the commit failed or not.
\* (First a variant that goes to err_cancel when the commit failed.)
eof_after_commit_cancel(i, ok) ==
  (IF ok THEN << >> ELSE xfs_trans_cancel) \o xfs_iunlock(i, "i_lock", "excl")
eof_after_commit(i, ok) == xfs_iunlock(i, "i_lock", "excl")

eof_err_cancel(i) == xfs_trans_cancel \o xfs_iunlock(i, "i_lock", "excl")

TxnFreeEof ==
  /\ pc \in {"eof", "eof_truncate"}
  /\ UNCHANGED <<inodes, mp, h>>
  /\ IF pc = "eof"
     THEN \/ \* xfs_qm_dqattach fails
             TxnRet("EIO", << >>)
          \/ \* a preallocated file: delayed blocks are punched, if any
             \E punch \in BOOLEAN :
               TxnRet(OK, IF punch THEN TxnLocks("lock", punch_locks(lv.ip))
                                          \o TxnLocks("unlock", punch_locks(lv.ip))
                          ELSE << >>)
          \/ TxnRet("EIO", xfs_trans_alloc(FALSE))
          \/ TxnGo("eof_truncate", lv, xfs_trans_alloc(TRUE) \o xfs_ilock(lv.ip, "excl"))
     ELSE \* xfs_itruncate_extents_flags rolls once for each extent it frees
          \/ /\ lv.n > 0
             /\ \E ok \in BOOLEAN :
                  IF ok THEN TxnGo(pc, [lv EXCEPT !.n = @ - 1], xfs_trans_roll(TRUE))
                  ELSE TxnRet("EIO", xfs_trans_roll(FALSE) \o eof_err_cancel(lv.ip))
          \/ /\ lv.n = 0
             /\ \E ok \in BOOLEAN :
                  TxnRet(IF ok THEN OK ELSE "EIO",
                         xfs_trans_commit(ok) \o eof_after_commit(lv.ip, ok))

(* xfs_collapse_file_space, xfs_insert_file_space *)
\* Labels out_trans_cancel, lines 1174-1177 and 1258-1261.
shift_out_trans_cancel(i) == xfs_trans_cancel \o xfs_iunlock(i, "i_lock", "excl")

\* Lines 1170-1172 and 1254-1256.
shift_commit(i, ok) == xfs_trans_commit(ok) \o xfs_iunlock(i, "i_lock", "excl")

\* xfs_free_file_space: nothing to unmap, or one xfs_unmap_extent.
free_file_space_runs(i) == {[error |-> OK, evs |-> << >>]} \cup unmap_extent_runs(i)

TxnCollapse ==
  /\ pc \in {"collapse", "collapse_loop"}
  /\ UNCHANGED <<inodes, mp, h>>
  /\ IF pc = "collapse"
     THEN \E r \in free_file_space_runs(lv.ip) :
            IF r.error # OK THEN TxnRet(r.error, r.evs)
            ELSE \/ \* xfs_prepare_shift fails
                    TxnRet("EIO", r.evs)
                 \/ TxnRet("ENOSPC", r.evs \o xfs_trans_alloc(FALSE))
                 \/ TxnGo("collapse_loop", lv,
                          r.evs \o xfs_trans_alloc(TRUE) \o xfs_ilock(lv.ip, "excl"))
     ELSE \/ \* xfs_bmap_collapse_extents fails
             TxnRet("EIO", txn_error \o shift_out_trans_cancel(lv.ip))
          \/ \* done
             /\ lv.n <= 1
             /\ \E ok \in BOOLEAN :
                  TxnRet(IF ok THEN OK ELSE "EIO", shift_commit(lv.ip, ok))
          \/ \* xfs_defer_finish
             /\ lv.n > 1
             /\ \E ok \in BOOLEAN :
                  IF ok THEN TxnGo(pc, [lv EXCEPT !.n = @ - 1], xfs_trans_roll(TRUE))
                  ELSE TxnRet("EIO", xfs_trans_roll(FALSE) \o shift_out_trans_cancel(lv.ip))

TxnInsert ==
  /\ pc \in {"insert", "insert_loop"}
  /\ UNCHANGED <<inodes, mp, h>>
  /\ IF pc = "insert"
     THEN \/ \* xfs_bmap_can_insert_extents or xfs_prepare_shift fails
             \E e \in {"EINVAL", "EIO"} : TxnRet(e, << >>)
          \/ TxnRet("ENOSPC", xfs_trans_alloc(FALSE))
          \/ \* the extent count check or xfs_bmap_split_extent fails
             \E e \in {"EFBIG", "EIO"} :
               TxnRet(e, xfs_trans_alloc(TRUE) \o xfs_ilock(lv.ip, "excl") \o txn_error
                           \o shift_out_trans_cancel(lv.ip))
          \/ TxnGo("insert_loop", lv, xfs_trans_alloc(TRUE) \o xfs_ilock(lv.ip, "excl"))
     ELSE \/ \* xfs_defer_finish fails
             TxnRet("EIO", xfs_trans_roll(FALSE) \o shift_out_trans_cancel(lv.ip))
          \/ \* xfs_bmap_insert_extents fails
             TxnRet("EIO", xfs_trans_roll(TRUE) \o txn_error
                             \o shift_out_trans_cancel(lv.ip))
          \/ \* done
             /\ lv.n <= 1
             /\ \E ok \in BOOLEAN :
                  TxnRet(IF ok THEN OK ELSE "EIO",
                         xfs_trans_roll(TRUE) \o shift_commit(lv.ip, ok))
          \/ /\ lv.n > 1
             /\ TxnGo(pc, [lv EXCEPT !.n = @ - 1], xfs_trans_roll(TRUE))

(* xfs_swap_extents *)
\* Lines 1675-1677.
swap_lock_io(ip, tip) ==
  TxnLocks("lock", swap_lock_level("i_rwsem", ip, tip, inodes)
                     \o swap_lock_level("invalidate_lock", ip, tip, inodes))

\* Line 1748.
swap_lock_ilock(ip, tip) == TxnLocks("lock", swap_lock_level("i_lock", ip, tip, inodes))

\* Lines 1870-1874, label out_unlock.
\* (First a variant that drops the ILOCKs here as well.)
swap_out_unlock_all(ip, tip) ==
  xfs_iunlock(ip, "i_lock", "excl") \o xfs_iunlock(tip, "i_lock", "excl")
    \o xfs_iunlock(ip, "invalidate_lock", "excl") \o xfs_iunlock(tip, "invalidate_lock", "excl")
    \o xfs_iunlock(ip, "i_rwsem", "excl") \o xfs_iunlock(tip, "i_rwsem", "excl")
swap_out_unlock(ip, tip) ==
  xfs_iunlock(ip, "invalidate_lock", "excl") \o xfs_iunlock(tip, "invalidate_lock", "excl")
    \o xfs_iunlock(ip, "i_rwsem", "excl") \o xfs_iunlock(tip, "i_rwsem", "excl")

\* Lines 1867-1869, label out_unlock_ilock.
swap_out_unlock_ilock(ip, tip) ==
  xfs_iunlock(ip, "i_lock", "excl") \o xfs_iunlock(tip, "i_lock", "excl")
    \o swap_out_unlock(ip, tip)

\* Lines 1876-1878, label out_trans_cancel.
swap_out_trans_cancel(ip, tip) == xfs_trans_cancel \o swap_out_unlock_ilock(ip, tip)

TxnSwap ==
  /\ pc \in {"swap", "swap_tp", "swap_rmap", "swap_owner"}
  /\ UNCHANGED <<inodes, mp, h>>
  /\ CASE pc = "swap" ->
            \/ \* a check, the quota attach, a flush or the cancel of the
               \* staged blocks fails: goto out_unlock
               \E e \in {"EINVAL", "EIO"} :
                 TxnRet(e, swap_lock_io(lv.ip, lv.tip) \o swap_out_unlock(lv.ip, lv.tip))
            \/ TxnRet("ENOSPC", swap_lock_io(lv.ip, lv.tip) \o xfs_trans_alloc(FALSE)
                                  \o swap_out_unlock(lv.ip, lv.tip))
            \/ TxnGo("swap_tp", lv, swap_lock_io(lv.ip, lv.tip) \o xfs_trans_alloc(TRUE)
                                      \o swap_lock_ilock(lv.ip, lv.tip))
       [] pc = "swap_tp" ->
            \/ \* lines 1753-1787: the range, the formats, the times
               \E e \in {"EFAULT", "EINVAL", "EBUSY"} :
                 TxnRet(e, txn_error \o swap_out_trans_cancel(lv.ip, lv.tip))
            \/ /\ lv.rmap
               /\ TxnGo("swap_rmap", lv, << >>)
            \/ \* xfs_swap_extent_forks
               /\ ~lv.rmap
               /\ \/ TxnRet("EIO", txn_error \o swap_out_trans_cancel(lv.ip, lv.tip))
                  \/ TxnGo("swap_owner", lv, << >>)
       [] pc = "swap_rmap" ->
            \/ \* a read, a count check or an unmap of xfs_swap_extent_rmap fails
               /\ lv.n > 0
               /\ \E e \in {"EIO", "EFBIG"} :
                    TxnRet(e, txn_error \o swap_out_trans_cancel(lv.ip, lv.tip))
            \/ \* xfs_defer_finish
               /\ lv.n > 0
               /\ \E ok \in BOOLEAN :
                    IF ok THEN TxnGo(pc, [lv EXCEPT !.n = @ - 1], xfs_trans_roll(TRUE))
                    ELSE TxnRet("EIO", xfs_trans_roll(FALSE)
                                         \o swap_out_trans_cancel(lv.ip, lv.tip))
            \/ /\ lv.n = 0
               /\ TxnGo("swap_owner", [lv EXCEPT !.tries = 0], << >>)
       [] pc = "swap_owner" ->
            \/ \* xfs_swap_change_owner: the scan fails
               /\ ~lv.rmap
               /\ TxnRet("EIO", txn_error \o swap_out_trans_cancel(lv.ip, lv.tip))
            \/ \* the scan returns -EAGAIN and the transaction is rolled
               /\ ~lv.rmap /\ lv.tries < MaxCalls
               /\ \E ok \in BOOLEAN :
                    IF ok THEN TxnGo(pc, [lv EXCEPT !.tries = @ + 1], xfs_trans_roll(TRUE))
                    ELSE TxnRet("EIO", xfs_trans_roll(FALSE)
                                         \o swap_out_trans_cancel(lv.ip, lv.tip))
            \/ \* lines 1862-1874
               \E ok \in BOOLEAN :
                 TxnRet(IF ok THEN OK ELSE "EIO",
                        xfs_trans_commit(ok) \o swap_out_unlock_ilock(lv.ip, lv.tip))

(* xfs_getbmap *)
\* Lines 577-581: out_unlock_ilock and out_unlock_iolock.
getbmap_out_unlock_iolock(i) == xfs_iunlock(i, "i_rwsem", "shared")

getbmap_out_unlock_ilock(i, lock) ==
  xfs_iunlock(i, "i_lock", lock) \o getbmap_out_unlock_iolock(i)

TxnGetbmap ==
  /\ pc = "getbmap"
  /\ UNCHANGED <<inodes, mp, h>>
  /\ \/ \* lines 418-432: bad flags or length, or length 0
        \E e \in {"EINVAL", OK} : TxnRet(e, << >>)
     \/ \* the flush of the data fork fails
        /\ lv.fork = "data"
        /\ TxnRet("EIO", TxnLocks("lock", SubSeq(getbmap_locks(lv.ip, lv.mode), 1, 1))
                           \o getbmap_out_unlock_iolock(lv.ip))
     \/ \* no such fork, a local fork, a read error, or the walk
        \E e \in {OK, "EINVAL", "EIO"} :
          TxnRet(e, TxnLocks("lock", getbmap_locks(lv.ip, lv.mode))
                      \o getbmap_out_unlock_ilock(lv.ip, lv.mode))

InitTxn ==
  /\ \E a \in {<<1, 2>>, <<2, 1>>} : inodes = [i \in Ino |-> [addr |-> a[i]]]
  /\ mp = MkMount
  /\ pc = "idle"
  /\ lv = NoTxn
  /\ ret = NoRet
  /\ h = NoHist
  /\ out = [log |-> << >>]

TxnCall ==
  /\ pc = "idle"
  /\ Call
  /\ UNCHANGED <<inodes, mp, ret>>
  /\ out' = [log |-> << >>]
  /\ \E op \in TxnOps, i \in Ino, n \in 1..MaxFsb, rmap \in BOOLEAN,
        fork \in {"data", "attr", "cow"}, mode \in {"shared", "excl"} :
       /\ op # "swap" => ~rmap
       /\ op # "getbmap" => fork = "data" /\ mode = "excl"
       /\ op \in {"unmap", "getbmap"} => n = 1
       /\ fork = "cow" => mode = "shared"
       /\ pc' = op
       /\ lv' = [NoTxn EXCEPT !.op = op, !.ip = i, !.tip = IF op = "swap" THEN 3 - i ELSE 0,
                              !.n = n, !.rmap = rmap, !.fork = fork, !.mode = mode]

NextTxn ==
  \/ TxnCall
  \/ TxnAllocSpace
  \/ TxnUnmap
  \/ TxnFreeEof
  \/ TxnCollapse
  \/ TxnInsert
  \/ TxnSwap
  \/ TxnGetbmap

SpecTxn == InitTxn /\ [][NextTxn]_vars

\* The transaction of the handler after the calls of log: "closed" when it
\* has none, "open", "failed" when it is open and an error was found, "bad"
\* when a call was made that the state of the transaction does not allow.
TxnAfter(st, e) ==
  CASE e.ev \in {"lock", "unlock"} -> st
    [] st = "closed" /\ e.ev = "alloc" -> "open"
    [] st = "closed" /\ e.ev = "allocfail" -> "closed"
    [] st = "open" /\ e.ev = "roll" -> "open"
    [] st = "open" /\ e.ev \in {"rollfail", "error"} -> "failed"
    [] st = "open" /\ e.ev \in {"commit", "commitfail"} -> "closed"
    [] st = "failed" /\ e.ev = "cancel" -> "closed"
    [] OTHER -> "bad"

RECURSIVE TxnState(_)
TxnState(log) ==
  IF log = << >> THEN "closed"
  ELSE TxnAfter(TxnState(SubSeq(log, 1, Len(log) - 1)), log[Len(log)])

TxnCount(log, evs) == Cardinality({k \in 1..Len(log) : log[k].ev \in evs})

TxnReturned == pc = "idle" /\ h.n > 0

TxnFinished ==
  /\ TxnState(out.log) # "bad"
  /\ TxnReturned =>
       /\ TxnState(out.log) = "closed"
       /\ TxnCount(out.log, {"alloc"})
            = TxnCount(out.log, {"commit", "commitfail", "cancel"})
       /\ ret.error = OK =>
            TxnCount(out.log, {"cancel", "commitfail", "error", "rollfail", "allocfail"}) = 0
       /\ TxnCount(out.log, {"cancel", "commitfail", "allocfail"}) > 0 => ret.error # OK

(***************************************************************************)
(* C37: in xfs_alloc_file_space, xfs_unmap_extent, xfs_free_eofblocks,     *)
(* xfs_collapse_file_space, xfs_insert_file_space and xfs_swap_extents a   *)
(* transaction that was allocated is finished exactly once on every path:  *)
(* committed on success, cancelled on an error found before the commit,    *)
(* never cancelled after a commit was tried, never committed after an      *)
(* error, never open at return; after a roll this holds of the             *)
(* continuation.                                                           *)
(***************************************************************************)
C37_TransFinished == TxnFinished

\* A swap rolled its transaction, then a roll failed and the continuation
\* was cancelled.
C37_Witness ==
  /\ TxnReturned /\ ret.op = "swap" /\ ret.error # OK
  /\ TxnCount(out.log, {"roll"}) > 0
  /\ TxnCount(out.log, {"rollfail"}) = 1
  /\ out.log[Len(out.log) - 6].ev = "cancel"

\* xfs_free_eofblocks returned the error of a failed commit.
TxnEofCommitFailed ==
  /\ TxnReturned /\ ret.op = "eof" /\ ret.error # OK
  /\ TxnCount(out.log, {"commitfail"}) = 1

\* xfs_alloc_file_space committed two transactions.
TxnAllocTwice ==
  /\ TxnReturned /\ ret.op = "alloc" /\ ret.error = OK
  /\ TxnCount(out.log, {"commit"}) = 2

\* The locks of the log: how often each was taken and released.
TxnKeys == {[ino |-> i, field |-> f, mode |-> m] :
              i \in Ino, f \in {"i_rwsem", "invalidate_lock", "i_lock"},
              m \in {"shared", "excl"}}

TxnLockCount(log, ev, key) ==
  Cardinality({k \in 1..Len(log) :
                 /\ log[k].ev = ev /\ log[k].ino = key.ino
                 /\ log[k].field = key.field /\ log[k].mode = key.mode})

\* What the handler holds after the calls of log.
TxnHeld(log, key) == TxnLockCount(log, "lock", key) - TxnLockCount(log, "unlock", key)

\* The locks the entry point takes in all: on both inodes for the swap.
TxnTakes(r, key) ==
  CASE r.op = "getbmap" ->
         key.ino = r.ip /\ ((key.field = "i_rwsem" /\ key.mode = "shared")
                              \/ key.field = "i_lock")
    [] r.op = "swap" -> key.mode = "excl"
    [] OTHER -> key.ino = r.ip /\ key.field = "i_lock" /\ key.mode = "excl"

TxnLocksBalanced ==
  /\ \A key \in TxnKeys : TxnHeld(out.log, key) \in {0, 1}
  /\ TxnReturned =>
       /\ \A key \in TxnKeys :
            /\ TxnHeld(out.log, key) = 0
            /\ TxnLockCount(out.log, "lock", key) > 0 => TxnTakes(ret, key)
       /\ ret.op = "swap" =>
            \A i \in Ino :
              /\ TxnLockCount(out.log, "unlock", LockReq(i, "i_rwsem", "excl")) = 1
              /\ TxnLockCount(out.log, "unlock", LockReq(i, "invalidate_lock", "excl")) = 1
              /\ TxnLockCount(out.log, "unlock", LockReq(i, "i_lock", "excl"))
                   = TxnCount(out.log, {"alloc"})

(***************************************************************************)
(* C38: on every return path each entry point has released exactly the     *)
(* locks it took and none it did not take: xfs_getbmap the shared IOLOCK   *)
(* and the map lock; xfs_alloc_file_space, xfs_unmap_extent,               *)
(* xfs_free_eofblocks, xfs_collapse_file_space and xfs_insert_file_space   *)
(* the exclusive ILOCK; xfs_swap_extents both ILOCKs only if it took them, *)
(* and always both invalidate locks and both inode locks.                  *)
(***************************************************************************)
C38_LockBalance == TxnLocksBalanced

\* A swap failed before its transaction was allocated: it released the
\* inode locks and the invalidate locks and never touched an ILOCK.
C38_Witness ==
  /\ TxnReturned /\ ret.op = "swap" /\ ret.error # OK
  /\ TxnCount(out.log, {"alloc"}) = 0
  /\ \A i \in Ino : TxnLockCount(out.log, "lock", LockReq(i, "i_lock", "excl")) = 0
  /\ TxnCount(out.log, {"unlock"}) = 4

\* xfs_getbmap failed to flush: only the IOLOCK was taken and released.
TxnGetbmapFlushFailed ==
  /\ TxnReturned /\ ret.op = "getbmap" /\ ret.error # OK
  /\ TxnCount(out.log, {"lock"}) = 1
  /\ TxnCount(out.log, {"unlock"}) = 1

\* A collapse unmapped, then shifted and committed: the ILOCK was taken
\* and released twice.
TxnCollapseTwoLocks ==
  /\ TxnReturned /\ ret.op = "collapse" /\ ret.error = OK
  /\ TxnCount(out.log, {"lock"}) = 2
  /\ TxnCount(out.log, {"roll"}) > 0

(***************************************************************************)
(* SpecRange: xfs_getbmap from every start offset up to and beyond the end *)
(* of the file, with every length and flag combination.                    *)
(***************************************************************************)
RangeOffsets == 0..((MaxFsb + 2) * BlockSize)
RangeLengths == BmapLengths \cup {1}
RangeFlags == SUBSET {"BMV_IF_DELALLOC", "BMV_IF_NO_HOLES", "BMV_IF_PREALLOC"}

RangeCall ==
  /\ h.n = 0
  /\ \E bmv_offset \in RangeOffsets, bmv_length \in RangeLengths, bmv_count \in BmapCounts,
        iflags \in RangeFlags :
       xfs_getbmap(1, [bmv_offset |-> bmv_offset, bmv_length |-> bmv_length,
                       bmv_count |-> bmv_count, bmv_entries |-> 0,
                       bmv_iflags |-> iflags \cup BmapForkFlag(
                                        IF mp.debug THEN "cow"
                                        ELSE IF inodes[1].i_af.present THEN "attr"
                                        ELSE "plain")])
  /\ Enter

NextRange == RangeCall
SpecRange == InitBmap /\ [][NextRange]_vars

\* Record k of the output has a length above 0.
RangePositive(k) == out.out[k].bmv_length > 0

\* Record k starts at or after the block of the requested start offset.
RangeAfterStart(k) == out.out[k].bmv_offset >= XFS_FSB_TO_BB(BmapFirstBno)

(***************************************************************************)
(* C39: every record written by xfs_getbmap, mapped or hole, has a length  *)
(* above 0 and lies at or after the block that holds the requested start   *)
(* offset, for every file size, start offset, length (-1 and offsets at or *)
(* beyond the end of the file included) and flag combination it accepts.   *)
(***************************************************************************)
C39_BmapRecordsPositive ==
  BmapDone => \A k \in 1..Len(out.out) : RangePositive(k) /\ RangeAfterStart(k)

\* The records lie at or after the block of the start offset.
RangeRecordsAfterStart ==
  BmapDone => \A k \in 1..Len(out.out) : RangeAfterStart(k)

\* Every mapped record has a length above 0.
RangeMappedPositive ==
  BmapDone => \A k \in 1..Len(out.out) : out.out[k].bmv_block # -1 => RangePositive(k)

\* Every hole record has a length above 0.
RangeHolesPositive ==
  BmapDone => \A k \in 1..Len(out.out) : out.out[k].bmv_block = -1 => RangePositive(k)

(***************************************************************************)
(* xfs_bmap_rtalloc, a pass from the label retry at a time.  lv holds the  *)
(* fields of ap and the locals of the function; out.tries is the list of   *)
(* the allocator calls made, out.log the lock calls.                       *)
(***************************************************************************)
\* The realtime blocks xfs_bmap_adjacent and the allocator may name.
RtBlocks == 0..(MaxFsb + 1)

\* The delayed blocks of a file whose request converts a delayed allocation.
RtDelayed == 4 * MaxFsb + 4

NULLRTBLOCK == -1

\* xfs_inode.c, for a realtime file: the hint of the inode, else the
\* realtime extent size.
xfs_get_extsz_hint(ip, m) == IF ip.extsz > 0 THEN ip.extsz ELSE m.sb_rextsize

\* libxfs xfs_bmap_extsize_align for a realtime file: the request grown to
\* multiples of align.
xfs_bmap_extsize_align(offset, length, align) ==
  [offset |-> rounddown_64(offset, align),
   length |-> roundup_64(offset + length, align) - rounddown_64(offset, align)]

\* Lines 134-140: the bitmap and the summary inode are locked and joined.
rtalloc_lock ==
  << TxnLock("lock", LockReq("m_rbmip", "i_lock", "excl")),
     TxnLock("lock", LockReq("m_rsumip", "i_lock", "excl")) >>

\* Lines 191-202: the retry without alignment starts from the hint
\* replaced by the realtime extent size.
\* (First a variant that keeps the hint.)
rtalloc_retry_align_kept(align, m) == align
rtalloc_retry_align(align, m) == m.sb_rextsize

NoRt == [op |-> "none", ip |-> 0, tip |-> 0, offset |-> 0, length |-> 0, orig_offset |-> 0,
         orig_length |-> 0, align |-> 0, minlen |-> 0, rtlocked |-> FALSE,
         ignore_locality |-> FALSE, eof |-> FALSE, wasdel |-> FALSE]

RtRet(error, blkno, length) ==
  /\ pc' = "idle"
  /\ lv' = NoRt
  /\ ret' = [NoRet EXCEPT !.op = "rtalloc", !.ip = lv.ip, !.offset = blkno, !.len = length,
                          !.error = error]

InitRt ==
  /\ \E extsz \in {0, 2, 4}, rextsize \in {1, 2}, nblocks \in {0, 1}, wasdel \in BOOLEAN :
       /\ (extsz % rextsize) = 0
       /\ inodes = [i \in Ino |->
                      [MkInode(<< >>, 0) EXCEPT
                         !.rt = (i = 1),
                         !.extsz = IF i = 1 THEN extsz ELSE 0,
                         !.i_nblocks = IF i = 1 THEN nblocks ELSE 0,
                         !.i_delayed_blks = IF i = 1 /\ wasdel THEN RtDelayed ELSE 0]]
       /\ mp = [MkMount EXCEPT !.sb_rextsize = rextsize]
  /\ pc = "idle"
  /\ lv = NoRt
  /\ ret = NoRet
  /\ h = NoHist
  /\ out = [log |-> << >>, tries |-> << >>]

\* Lines 76-90: the locals before the label retry.
RtCall ==
  /\ pc = "idle" /\ h.n = 0
  /\ UNCHANGED <<inodes, mp, ret, out>>
  /\ \E offset \in 0..MaxFsb, length \in 1..MaxFsb, eof \in BOOLEAN :
       /\ ((offset % mp.sb_rextsize) = 0) /\ ((length % mp.sb_rextsize) = 0)
       /\ pc' = "rt_retry"
       /\ lv' = [NoRt EXCEPT !.op = "rtalloc", !.ip = 1,
                             !.offset = offset, !.length = length,
                             !.orig_offset = offset, !.orig_length = length,
                             !.align = xfs_get_extsz_hint(inodes[1], mp),
                             !.minlen = mp.sb_rextsize,
                             !.eof = eof, !.wasdel = (inodes[1].i_delayed_blks > 0)]
  /\ Enter

\* Lines 91-215: one pass from retry to a return or back to retry.
RtAttempt ==
  /\ pc = "rt_retry"
  /\ UNCHANGED <<mp, h>>
  /\ LET rext == mp.sb_rextsize
         al == xfs_bmap_extsize_align(lv.offset, lv.length, lv.align)
         minlen == IF al.offset # lv.orig_offset
                   THEN lv.minlen + (lv.orig_offset - al.offset) ELSE lv.minlen
         prod == IF (al.offset % lv.align) # 0 \/ (al.length % lv.align) # 0
                 THEN 1 ELSE lv.align \div rext
         ralen == IF (al.length \div rext) * rext >= XFS_MAX_BMBT_EXTLEN
                  THEN XFS_MAX_BMBT_EXTLEN \div rext ELSE al.length \div rext
         locks == IF lv.rtlocked THEN << >> ELSE rtalloc_lock
         raminlen == Max(1, minlen \div rext)
         try(blkno, found) == [align |-> lv.align, offset |-> lv.offset,
                               length |-> lv.length, locality |-> ~lv.ignore_locality,
                               blkno |-> blkno, found |-> found]
     IN \/ \* xfs_bmap_extsize_align fails
           /\ RtRet("EINVAL", lv.offset, lv.length)
           /\ UNCHANGED <<inodes, out>>
        \/ \* xfs_rtpick_extent fails
           /\ lv.eof /\ al.offset = 0
           /\ RtRet("EIO", 0, al.length)
           /\ out' = [out EXCEPT !.log = @ \o locks]
           /\ UNCHANGED inodes
        \/ \* xfs_rtpick_extent, xfs_bmap_adjacent: ap->blkno is some block
           \E b \in RtBlocks :
             LET blkno == IF lv.ignore_locality THEN 0 ELSE b \div rext IN
             \/ \* xfs_rtallocate_extent fails
                /\ RtRet("EIO", blkno, ralen)
                /\ out' = [log |-> out.log \o locks,
                           tries |-> Append(out.tries, try(blkno, "error"))]
                /\ UNCHANGED inodes
             \/ \* it finds ralen2 realtime extents at rtb
                \E rtb \in RtBlocks, ralen2 \in raminlen..ralen :
                  /\ (ralen2 % prod) = 0
                  /\ rtb * rext \in RtBlocks
                  /\ inodes' = [inodes EXCEPT
                       ![lv.ip].i_nblocks = @ + ralen2 * rext,
                       ![lv.ip].i_delayed_blks = IF lv.wasdel THEN @ - ralen2 * rext ELSE @]
                  /\ out' = [log |-> out.log \o locks,
                             tries |-> Append(out.tries, try(blkno, "space"))]
                  /\ RtRet(OK, rtb * rext, ralen2 * rext)
             \/ \* it finds nothing: rtb is NULLRTBLOCK
                /\ UNCHANGED inodes
                /\ out' = [log |-> out.log \o locks,
                           tries |-> Append(out.tries, try(blkno, "none"))]
                /\ IF lv.align > rext
                   THEN /\ lv' = [lv EXCEPT !.offset = lv.orig_offset,
                                            !.length = lv.orig_length,
                                            !.minlen = rext,
                                            !.align = rtalloc_retry_align(lv.align, mp),
                                            !.rtlocked = TRUE]
                        /\ UNCHANGED <<pc, ret>>
                   ELSE IF ~lv.ignore_locality /\ blkno # 0
                   THEN /\ lv' = [lv EXCEPT !.offset = al.offset, !.length = ralen,
                                            !.minlen = minlen,
                                            !.ignore_locality = TRUE,
                                            !.rtlocked = TRUE]
                        /\ UNCHANGED <<pc, ret>>
                   ELSE RtRet(OK, NULLFSBLOCK, 0)

NextRt == RtCall \/ RtAttempt
SpecRt == InitRt /\ [][NextRt]_vars /\ WF_vars(RtAttempt)

RtDone == Returned("rtalloc") /\ h.n = 1

\* Try k follows the try before it as the code orders them: after a try
\* with an alignment above the realtime extent size the request is the
\* original one and the alignment is the extent size; otherwise the try is
\* the one without locality.
RtOrdered(k) ==
  LET t == out.tries[k]
      p == out.tries[k - 1]
  IN /\ p.found = "none"
     /\ IF p.align > mp.sb_rextsize
        THEN /\ t.align = mp.sb_rextsize
             /\ t.offset = out.tries[1].offset
             /\ t.length = out.tries[1].length
             /\ t.locality = p.locality
        ELSE /\ p.locality /\ ~t.locality /\ p.blkno # 0
             /\ t.align = p.align
             /\ t.blkno = 0

RtLockCount(i) == TxnLockCount(out.log, "lock", LockReq(i, "i_lock", "excl"))

RtTries ==
  /\ Len(out.tries) <= 3
  /\ out.tries # << >> =>
       /\ out.tries[1].locality
       /\ out.tries[1].align = xfs_get_extsz_hint(inodes[1], mp)
  /\ \A k \in 2..Len(out.tries) : RtOrdered(k)
  /\ RtLockCount("m_rbmip") <= 1 /\ RtLockCount("m_rsumip") <= 1
  /\ out.tries # << >> => RtLockCount("m_rbmip") = 1 /\ RtLockCount("m_rsumip") = 1

RtResult ==
  RtDone /\ ret.error = OK =>
    LET was == h.pre[ret.ip]
        now == inodes[ret.ip]
        last == out.tries[Len(out.tries)]
    IN IF \A k \in 1..Len(out.tries) : out.tries[k].found = "none"
       THEN /\ ret.offset = NULLFSBLOCK /\ ret.len = 0
            /\ now = was
       ELSE /\ last.found = "space"
            /\ ret.offset # NULLFSBLOCK /\ ret.len > 0
            /\ now.i_nblocks = was.i_nblocks + ret.len
            /\ now.i_delayed_blks
                 = IF was.i_delayed_blks > 0 THEN was.i_delayed_blks - ret.len
                   ELSE was.i_delayed_blks

(***************************************************************************)
(* C40: xfs_bmap_rtalloc returns after at most three calls of the          *)
(* allocator (aligned with locality, then unaligned from the original      *)
(* offset and length, then without locality), takes the locks of the       *)
(* realtime bitmap and summary inodes at most once over the retries, and   *)
(* when every call finds no space returns 0 with block NULLFSBLOCK and     *)
(* length 0 and the block count and delayed-block count of the file        *)
(* unchanged; when a call finds space the block count grows by exactly     *)
(* the length returned.                                                    *)
(***************************************************************************)
C40_RtallocRetries == [](RtTries /\ RtResult) /\ (pc = "rt_retry" ~> pc = "idle")

\* Three calls found nothing: aligned, unaligned, without locality.
C40_Witness ==
  /\ RtDone /\ ret.error = OK /\ ret.offset = NULLFSBLOCK
  /\ Len(out.tries) = 3
  /\ out.tries[1].align > mp.sb_rextsize
  /\ ~out.tries[3].locality

\* The third call, without locality, found space for a delayed request.
RtThirdFound ==
  /\ RtDone /\ ret.error = OK /\ ret.len > 0
  /\ Len(out.tries) = 3
  /\ h.pre[1].i_delayed_blks > 0

\* A request without a hint above the extent size went on without locality.
RtTwoTries ==
  /\ RtDone /\ Len(out.tries) = 2
  /\ out.tries[1].align = mp.sb_rextsize

====
